---- MODULE Spec2Model ----
(***************************************************************************)
(* A model of the virtual-endpoint scrape engine of the atomapi package:   *)
(* the pagination planner, the page fetcher, the thread-pool fan-out, the  *)
(* as-completed aggregation and the caching facade around them.            *)
(*                                                                         *)
(* Three variants of the engine live in the repository and are modelled    *)
(* side by side, selected by the variable `variant`:                       *)
(*   "endpoints" endpoints.py  VirtualBrowseTaxonomyEndpoint.call          *)
(*   "atomapi"   atomapi.py    VirtualTaxonomyEndpoint.get_terms           *)
(*   "base"      models/base.py VirtualBaseModel.get_list_from_ui          *)
(***************************************************************************)
EXTENDS Integers, Sequences, FiniteSets, TLC

(***************************************************************************)
(* Program constants.                                                      *)
(***************************************************************************)
RESULT_LIMIT == 10
ITEMS_ACCOUNTED_FOR_START == 10
FIRST_FANOUT_PAGE == 2
max_workers == 5
MAX_THREAD_POOL_EXECUTORS == 5
LRU_MAXSIZE == 10
SecondsPerMinute == 60
MinutesPerHour == 60

(***************************************************************************)
(* Bounds of the model.                                                    *)
(***************************************************************************)
MaxTotal == 21          \* largest total the remote list reports in Spec
FanoutTotal == 51       \* the total the remote list reports in SpecFanout
MaxPlanTotal == 75      \* largest total handed to the planner in SpecPlan
MaxCalls == 1           \* calls made by the caller in one behaviour of Spec
RepeatCalls == 2        \* calls made by the caller in one behaviour of SpecRepeat
MaxFaults == 4          \* faulty responses of the server in one behaviour of Spec
FanoutFaults == 1       \* faulty responses of the server in one behaviour of SpecFanout
MaxTicks == 1           \* clock advances in one behaviour
MaxParams == 2          \* parameters in one dict of a browse query in SpecKey
TicksPerSecond == 2     \* clock resolution below the second kept by strftime
ApiCalls == 2           \* calls made by the caller in one behaviour of SpecApi
MaxTerms == 2           \* most terms or results in one answer of the API
SharedCalls == 2        \* calls made through the endpoints of SpecShared
SharedTotal == 11       \* largest total the remote list reports in SpecShared
CultureCalls == 2       \* calls made through the endpoints of SpecCulture
CacheOps == 3           \* calls of the Cache in one behaviour of SpecCache
AuthCalls == 3          \* authorize calls in one behaviour of SpecAuth
MaxCacheTicks == 2      \* clock advances in one behaviour of SpecCache
AtomCalls == 3          \* get calls on one Atom object
TtlCalls == 4           \* constructions and setter calls in one behaviour of SpecTtl
FairTotal == 21         \* largest total the remote list reports in SpecFair
FairFaults == 2         \* faulty responses the server may give in SpecFair

Variants == {"endpoints", "atomapi", "base"}
Cached == {"endpoints", "atomapi"}

(***************************************************************************)
(* The registry of virtual taxonomies and the identifiers callers pass.    *)
(* 42 scrapes names (strings), 102 scrapes (code, name) tuples, 34 is a    *)
(* real taxonomy id that has no virtual endpoint.                          *)
(***************************************************************************)
virtual_taxonomies == {42, 35, 78, 101, 102}
Ids == {42, 102, 34}

ParserItemType(id) == IF id = 102 THEN "tuple" ELSE "str"

Min(a, b) == IF a < b THEN a ELSE b

(***************************************************************************)
(* URLs: scrape_url.format(atom_url, id, limit, page).                     *)
(***************************************************************************)
Url(id, page) == [id |-> id, page |-> page, limit |-> RESULT_LIMIT]

(***************************************************************************)
(* PaginationPlanner.  Pages are numbered from 1; the planner works on the *)
(* total reported by the first page.                                       *)
(***************************************************************************)
RECURSIVE PlanLoop(_, _, _, _)
PlanLoop(total_items, items_accounted_for, page_num, all_urls) ==
    IF items_accounted_for < total_items
    THEN PlanLoop(total_items, items_accounted_for + RESULT_LIMIT, page_num + 1,
                  Append(all_urls, page_num))
    ELSE all_urls

\* the planner with the loop test `<=` in place of `<`
RECURSIVE PlanLoopInclusive(_, _, _, _)
PlanLoopInclusive(total_items, items_accounted_for, page_num, all_urls) ==
    IF items_accounted_for <= total_items
    THEN PlanLoopInclusive(total_items, items_accounted_for + RESULT_LIMIT, page_num + 1,
                           Append(all_urls, page_num))
    ELSE all_urls

PageUrlsInclusive(total_items) ==
    PlanLoopInclusive(total_items, ITEMS_ACCOUNTED_FOR_START, FIRST_FANOUT_PAGE, <<>>)

\* endpoints.py / atomapi.py: the pages of 'urls_for_page_2+'
PageUrls(total_items) ==
    PlanLoop(total_items, ITEMS_ACCOUNTED_FOR_START, FIRST_FANOUT_PAGE, <<>>)

\* len(range(start, stop, step)) for step > 0
RangeLen(start, stop, step) ==
    IF stop > start THEN (stop - start + step - 1) \div step ELSE 0

\* models/base.py: all_urls, the first page included, then enumerate(range(...), 2)
EnumerateListUrls(total_items) ==
    <<1>> \o [i \in 1..RangeLen(RESULT_LIMIT, total_items, RESULT_LIMIT) |-> i + 1]

(***************************************************************************)
(* The remote server.  A response carries the HTTP status, whether the     *)
(* body holds the concurrent-session-exhaustion marker, the total of the   *)
(* result-count marker (-1: no marker the pattern matches) and the number  *)
(* of list items the page shows.                                           *)
(***************************************************************************)
ItemsOnPage(page, total) ==
    IF total > (page - 1) * RESULT_LIMIT
    THEN Min(RESULT_LIMIT, total - (page - 1) * RESULT_LIMIT)
    ELSE 0

NoResponse == [status |-> 0, marker |-> FALSE, total |-> -1, page |-> 0, nitems |-> 0]

ListPage(page, total) ==
    [status |-> 200, marker |-> FALSE, total |-> total, page |-> page,
     nitems |-> ItemsOnPage(page, total)]

ErrorStatusPage(page) ==
    [status |-> 500, marker |-> FALSE, total |-> -1, page |-> page, nitems |-> 0]

SessionExhaustedPage(page) ==
    [status |-> 200, marker |-> TRUE, total |-> -1, page |-> page, nitems |-> 0]

UncountedPage(page, total) ==
    [status |-> 200, marker |-> FALSE, total |-> -1, page |-> page,
     nitems |-> ItemsOnPage(page, total)]

FaultyResponses(page, total) ==
    {ErrorStatusPage(page), SessionExhaustedPage(page)}
        \cup (IF page = 1 THEN {UncountedPage(page, total)} ELSE {})

\* what the server may answer while it has f faulty responses left in it
ServerResponses(page, total, f) ==
    {ListPage(page, total)} \cup (IF f > 0 THEN FaultyResponses(page, total) ELSE {})

FaultsAfter(f, resp) == IF resp = ListPage(resp.page, resp.total) THEN f ELSE f - 1

(***************************************************************************)
(* PageFetcher.  A call either returns the response text or raises.        *)
(***************************************************************************)
Return(text) == [ok |-> TRUE, err |-> "", text |-> text]
Raise(err) == [ok |-> FALSE, err |-> err, text |-> NoResponse]

\* response.raise_for_status()
RaisesForStatus(resp) == resp.status >= 400

\* endpoints.py / atomapi.py _get_page_content
GetPageContentEndpoint(resp) ==
    IF RaisesForStatus(resp) THEN Raise("HTTPError")
    ELSE IF resp.marker THEN Raise("ConnectionError")
    ELSE Return(resp)

\* atom.py Atom.get: raise_for_status, then the response is returned
AtomGet(resp) ==
    IF RaisesForStatus(resp) THEN Raise("HTTPError") ELSE Return(resp)

\* models/base.py _get_page_content: response.text of Atom.get.  (The call
\* passes the Accept header as a third positional argument, one more than the
\* signature in atom.py names; the fetch is taken as the call means it: a GET
\* through Atom.get.)  The body is not inspected.
GetPageContentBase(resp) == AtomGet(resp)

GetPageContent(v, resp) ==
    IF v = "base" THEN GetPageContentBase(resp) ELSE GetPageContentEndpoint(resp)

\* RESULTS.search(str(result_tag)) finds a total
\* the test `if not results_match` left out
ResultsMatchAlways(text) == TRUE
ResultsMatch(text) == text.total >= 0

\* the exception that ends the scrape at the first page, "" when there is none:
\* what _get_page_content raised, or the ConnectionError of `if not results_match`
\* the exceptions of the first page swallowed
FirstPageErrorIgnored(v, resp) == ""
FirstPageError(v, resp) ==
    IF ~GetPageContent(v, resp).ok THEN GetPageContent(v, resp).err
    ELSE IF ~ResultsMatch(GetPageContent(v, resp).text) THEN "ConnectionError"
    ELSE ""

(***************************************************************************)
(* RecordParser: the items a page's document yields.                       *)
(***************************************************************************)
Parse(id, text) ==
    [k \in 1..text.nitems |-> [type |-> ParserItemType(id), page |-> text.page, k |-> k]]

(***************************************************************************)
(* Cache (cache.py).  One file per storage location; the structure is      *)
(* written with json.dump and read back with json.load.                    *)
(***************************************************************************)
NoFile == [exists |-> FALSE, expires |-> 0, object |-> <<>>]

\* json.dump followed by json.load: a tuple comes back as a list
JsonItem(item) == IF item.type = "tuple" THEN [item EXCEPT !.type = "list"] ELSE item
JsonRoundTrip(obj) == [i \in DOMAIN obj |-> JsonItem(obj[i])]

Timedelta(h, m) == (h * MinutesPerHour + m) * SecondsPerMinute * TicksPerSecond

\* strftime('%Y-%m-%d %H:%M:%S') then strptime: the fraction of a second is dropped
Strftime(t) == t - (t % TicksPerSecond)

CacheStore(c, name, obj, t, h, m) ==
    [c EXCEPT ![name] = [exists |-> TRUE,
                         expires |-> Strftime(t + Timedelta(h, m)),
                         object |-> JsonRoundTrip(obj)]]

None == [found |-> FALSE, value |-> <<>>]

CacheRetrieve(c, name, t) ==
    IF ~c[name].exists THEN None
    ELSE IF c[name].expires < t THEN None
    ELSE [found |-> TRUE, value |-> c[name].object]

\* `if cached_items:` -- None and the empty list are both falsy
Truthy(r) == r.found /\ r.value # <<>>

\* `object_id not in virtual_taxonomies` decides on this
\* the check left out
RegisteredAlways(id) == TRUE
Registered(id) == id \in virtual_taxonomies

\* the zero-TTL guard of the two cached variants
\* the guard with `< 0` in place of `== 0`
CachingDisabledNegative(h, m) == h + m < 0
CachingDisabledEndpoints(h, m) == h + m = 0
CachingDisabledAtomapi(h, m) == h = 0
CachingDisabled(v, h, m) ==
    IF v = "atomapi" THEN CachingDisabledAtomapi(h, m) ELSE CachingDisabledEndpoints(h, m)

ACCEPTED_LANGUAGES == {"en", "fr", "es", "nl", "pt"}

(***************************************************************************)
(* State.                                                                  *)
(***************************************************************************)
VARIABLES
    variant,              \* which engine the caller uses
    api_key,              \* self.api_key of the endpoint ("" stands for None)
    culture,              \* self.sf_culture of the endpoint ("" stands for None)
    hours, minutes,       \* cache.hours, cache.minutes of the endpoint
    remote,               \* the total the remote list holds
    faults,               \* faulty responses the server may still give
    cache,                \* storage location -> file
    now, ticks,           \* the clock, and how often it has advanced
    budget,               \* calls the caller has still to make
    pc,                   \* "idle", "first_page", "fanout", "shutdown"
    cur,                  \* bookkeeping of the call in progress
    last,                 \* the call that finished last; cleared when one starts
    futures,              \* web_requests: the submitted work items
    all_items,            \* the result aggregate
    first_page_contents,  \* result['response_text']
    raised,               \* the exception leaving the with-block
    planT, planPc, planUrls,   \* the planner on its own
    query1, query2,            \* two browse queries, each <<sq, sf, so, filters>>
    key1, key2, keyPc,         \* their cache ids
    callers,              \* processes using the Cache at once (1 or 2)
    store_call,           \* the Cache.store in progress or finished last
    retrieve_call,        \* the Cache.retrieve in progress or finished last
    set_call,             \* the Cache(...) / set_expire_hours / set_expire_minutes made last
    partial,              \* storage locations whose file holds incomplete JSON
    stored,               \* storage location -> when and with which TTL it was stored
    credentials,          \* the lru_cache of get_credentials, least recently used first
    auth_call,            \* the F5Authorizer.authorize made last
    prompted_urls,        \* login URLs a caching authorizer got credentials for
    lazy_session,         \* Atom._lazy_session: the session and the authorizer it came from
    authorizer,           \* Atom._authorizer
    authorized,           \* sessions the authorizers of the Atom object have returned
    atom_call             \* the Atom.get made last

envVars == <<variant, api_key, culture, hours, minutes, remote>>
scrapeVars == <<variant, api_key, culture, hours, minutes, remote, faults, cache, now, ticks, budget, pc,
                cur, last, futures, all_items, first_page_contents, raised>>
planVars == <<planT, planPc, planUrls>>
keyVars == <<query1, query2, key1, key2, keyPc>>
cacheVars == <<callers, store_call, retrieve_call, set_call, partial, stored>>
authVars == <<credentials, auth_call, prompted_urls>>
atomVars == <<lazy_session, authorizer, authorized, atom_call>>
sideVars == <<planVars, keyVars, cacheVars, authVars, atomVars>>
engineVars == <<variant, api_key, culture, remote, faults, pc, cur, last, futures, all_items,
                first_page_contents, raised>>
vars == <<scrapeVars, planVars, keyVars, cacheVars, authVars, atomVars>>

NoCall ==
    [id |-> 0, endpoint |-> "", sf_culture |-> "", kind |-> "none", err |-> "", value |-> <<>>, source |-> "none",
     start |-> 0, expires |-> -1, requested |-> <<>>, cacheReads |-> 0,
     cacheWrites |-> 0, parsed |-> <<>>, failed |-> FALSE, marker |-> FALSE,
     markerParsed |-> FALSE, total |-> -1, plan |-> <<>>, noTotal |-> FALSE,
     texts |-> <<>>, body |-> <<>>]

NewCall(id, t) ==
    [NoCall EXCEPT !.id = id, !.endpoint = variant, !.sf_culture = culture,
                   !.kind = "running", !.start = t]

\* a file left in the temporary directory by an earlier run of the real-API
\* taxonomy endpoint, which stores under the bare taxonomy id
EarlierFile ==
    [exists |-> TRUE, expires |-> Timedelta(2, 0),
     object |-> <<[type |-> "str", page |-> 0, k |-> 1]>>]

\* an executor without worker threads
PoolSizeNone(v) == 0
PoolSize(v) == IF v = "base" THEN MAX_THREAD_POOL_EXECUTORS ELSE max_workers

Running == {i \in DOMAIN futures : futures[i].state = "running"}
Pending == {i \in DOMAIN futures : futures[i].state = "pending"}
Finished == {i \in DOMAIN futures : futures[i].state = "finished"}
InFlight == {i \in Running : futures[i].kind = "fetch"}

WorkItem(kind, page) ==
    [kind |-> kind, page |-> page, state |-> "pending", yielded |-> FALSE,
     result |-> Raise("")]

PlanIdle == planT = 0 /\ planPc = "off" /\ planUrls = <<>>

KeyIdle ==
    /\ query1 = <<>>
    /\ query2 = <<>>
    /\ key1 = <<>>
    /\ key2 = <<>>
    /\ keyPc = "off"

\* no Cache.store, retrieve or setter call of a caller of the Cache alone
NoStore ==
    [pc |-> "idle", name |-> "", obj |-> <<>>, at |-> 0, hours |-> 0, minutes |-> 0,
     orphaned |-> FALSE]

NoEntry == [written |-> FALSE, at |-> 0, ttl |-> 0, object |-> <<>>]

NoRetrieve ==
    [pc |-> "idle", name |-> "", at |-> 0, found |-> FALSE, value |-> <<>>, err |-> "",
     entry |-> NoEntry]

NoSet == [op |-> "", arg |-> <<>>, err |-> ""]

CacheIdle ==
    /\ callers = 1
    /\ store_call = NoStore
    /\ retrieve_call = NoRetrieve
    /\ set_call = NoSet
    /\ partial = {}
    /\ stored = <<>>

NoAuth ==
    [url |-> "", cache_credentials |-> FALSE, earlier |-> FALSE, prompted |-> FALSE,
     err |-> "", login_data |-> ""]

AuthIdle ==
    /\ credentials = <<>>
    /\ auth_call = NoAuth
    /\ prompted_urls = {}

\* no Atom object in use: None for the authorizer and the session
NoAuthorizer == [class |-> "", url |-> "", cache_credentials |-> FALSE]

NoSession == [id |-> 0, by |-> NoAuthorizer]

NoGet ==
    [n |-> 0, api_key |-> "", path |-> <<>>, given |-> <<>>, params |-> <<>>,
     sf_culture |-> "", err |-> "",
     authorize_calls |-> 0, session |-> 0, headers |-> <<>>, sent |-> <<>>,
     request_url |-> <<>>, status |-> 0]

AtomIdle ==
    /\ lazy_session = NoSession
    /\ authorizer = NoAuthorizer
    /\ authorized = 0
    /\ atom_call = NoGet

\* the endpoint object as constructed, the disk as found, nothing in progress
InitEndpoint ==
    /\ variant \in Variants
    /\ api_key = ""
    /\ culture = ""
    /\ IF variant \in Cached
       THEN /\ hours \in {0, 1}
            /\ minutes \in {0, 30}
            /\ cache \in {c \in [Ids -> {NoFile, EarlierFile}] :
                            \A id \in Ids \cap virtual_taxonomies : c[id] = NoFile}
       ELSE /\ hours = 1
            /\ minutes = 0
            /\ cache = [id \in Ids |-> NoFile]
    /\ now = 0
    /\ ticks = 0
    /\ pc = "idle"
    /\ cur = NoCall
    /\ last = NoCall
    /\ futures = <<>>
    /\ all_items = <<>>
    /\ first_page_contents = NoResponse
    /\ raised = ""

Init ==
    /\ InitEndpoint
    /\ remote \in 0..MaxTotal
    /\ faults = MaxFaults
    /\ budget = MaxCalls
    /\ PlanIdle
    /\ KeyIdle
    /\ CacheIdle
    /\ AuthIdle
    /\ AtomIdle

(***************************************************************************)
(* The end of a call: its locals die and the bookkeeping moves to `last`.  *)
(***************************************************************************)
EndCall(record) ==
    /\ last' = record
    /\ cur' = NoCall
    /\ pc' = "idle"
    /\ futures' = <<>>
    /\ all_items' = <<>>
    /\ first_page_contents' = NoResponse
    /\ raised' = ""

\* the exception swallowed and an empty list returned in its place
FailureAsEmpty(record, err) == [record EXCEPT !.kind = "ok", !.source = "scrape"]
Failure(record, err) == [record EXCEPT !.kind = "error", !.err = err]

\* return all_items, after self.cache.store(object_id, all_items) where cached
ReturnItems(record, items) ==
    IF variant \in Cached
    THEN /\ cache' = CacheStore(cache, record.id, items, now, hours, minutes)
         /\ EndCall([record EXCEPT !.kind = "ok", !.value = items, !.source = "scrape",
                                   !.cacheWrites = @ + 1,
                                   !.expires = Strftime(now + Timedelta(hours, minutes))])
    ELSE /\ UNCHANGED cache
         /\ EndCall([record EXCEPT !.kind = "ok", !.value = items, !.source = "scrape"])

\* the first page request goes out
RequestFirstPage(record) ==
    /\ cur' = [record EXCEPT !.requested = <<1>>]
    /\ pc' = "first_page"
    /\ last' = NoCall
    /\ UNCHANGED <<futures, all_items, first_page_contents, raised>>

(***************************************************************************)
(* call(object_id) / get_terms(taxonomy_id), up to the first page request. *)
(***************************************************************************)
Call(id) ==
    /\ variant \in Cached
    /\ pc = "idle"
    /\ budget > 0
    /\ budget' = budget - 1
    /\ LET c == NewCall(id, now)
           r == CacheRetrieve(cache, id, now)
           read == [c EXCEPT !.cacheReads = 1]
       IN IF CachingDisabled(variant, hours, minutes)
          THEN EndCall(Failure(c, "ValueError"))
          ELSE IF ~Registered(id)
          THEN EndCall(Failure(c, "ValueError"))
          ELSE IF Truthy(r)
          THEN EndCall([read EXCEPT !.kind = "ok", !.value = r.value, !.source = "cache",
                                    !.expires = cache[id].expires])
          ELSE RequestFirstPage(read)
    /\ UNCHANGED <<envVars, faults, cache, now, ticks, sideVars>>

(***************************************************************************)
(* get_list_from_ui(path, sf_culture), up to the first page request.       *)
(***************************************************************************)
GetListFromUi(id, sf_culture, path_has_params) ==
    /\ variant = "base"
    /\ pc = "idle"
    /\ budget > 0
    /\ budget' = budget - 1
    /\ LET c == NewCall(id, now)
       IN IF sf_culture \notin ACCEPTED_LANGUAGES
          THEN EndCall(Failure(c, "ValueError"))
          ELSE IF ~path_has_params
          THEN EndCall(Failure(c, "ValueError"))
          ELSE RequestFirstPage(c)
    /\ UNCHANGED <<envVars, faults, cache, now, ticks, sideVars>>

\* what one received response adds to the bookkeeping of the call
Noted(record, resp, got) ==
    [record EXCEPT !.failed = @ \/ ~got.ok,
                   !.marker = @ \/ (resp.marker /\ ~RaisesForStatus(resp))]

PlannedPages(v, total) ==
    IF v = "base" THEN EnumerateListUrls(total) ELSE PageUrls(total)

\* the submissions without the first-page lambda
SubmittedWithoutFirstPage(v, total) ==
    [i \in DOMAIN PlannedPages(v, total) |-> WorkItem("fetch", PlannedPages(v, total)[i])]

\* executor.submit for every url, then (cached variants) the first-page lambda
Submitted(v, total) ==
    LET fetches == [i \in DOMAIN PlannedPages(v, total) |->
                       WorkItem("fetch", PlannedPages(v, total)[i])]
    IN IF v = "base" THEN fetches ELSE Append(fetches, WorkItem("local", 1))

(***************************************************************************)
(* The first page arrives: _get_page_urls_and_first_page_content /         *)
(* _get_total_list_items + _enumerate_list_urls, then the submissions.     *)
(***************************************************************************)
FirstPageResponse(resp) ==
    /\ pc = "first_page"
    /\ resp \in ServerResponses(1, remote, faults)
    /\ faults' = FaultsAfter(faults, resp)
    /\ LET got == GetPageContent(variant, resp)
           c == [Noted(cur, resp, got) EXCEPT !.noTotal = ~RaisesForStatus(resp) /\ resp.total < 0]
       IN IF FirstPageError(variant, resp) # ""
          THEN EndCall(Failure(c, FirstPageError(variant, resp)))
          ELSE /\ cur' = [c EXCEPT !.total = got.text.total,
                                   !.plan = PlannedPages(variant, got.text.total)]
               /\ futures' = Submitted(variant, got.text.total)
               /\ first_page_contents' = IF variant = "base" THEN NoResponse ELSE got.text
               /\ pc' = "fanout"
               /\ UNCHANGED <<last, all_items, raised>>
    /\ UNCHANGED <<envVars, cache, now, ticks, budget, sideVars>>

(***************************************************************************)
(* The worker threads of the ThreadPoolExecutor.  Work items leave the     *)
(* queue in submission order; a thread is free when fewer than the pool    *)
(* size are running.                                                       *)
(***************************************************************************)
HeadOfQueue(i) == i \in Pending /\ \A j \in Pending : i <= j

\* one thread too many
ThreadFreeInclusive(v) == Cardinality(Running) <= PoolSize(v)
ThreadFree(v) == Cardinality(Running) < PoolSize(v)

\* a worker takes a page fetch and issues its GET
StartFetch(i) ==
    /\ pc \in {"fanout", "shutdown"}
    /\ HeadOfQueue(i)
    /\ futures[i].kind = "fetch"
    /\ ThreadFree(variant)
    /\ futures' = [futures EXCEPT ![i].state = "running"]
    /\ cur' = [cur EXCEPT !.requested = Append(@, futures[i].page)]
    /\ UNCHANGED <<envVars, faults, cache, now, ticks, budget, pc, last, all_items,
                   first_page_contents, raised, sideVars>>

\* a worker runs `lambda: first_page_contents`
RunLocal(i) ==
    /\ pc \in {"fanout", "shutdown"}
    /\ HeadOfQueue(i)
    /\ futures[i].kind = "local"
    /\ ThreadFree(variant)
    /\ futures' = [futures EXCEPT ![i].state = "finished",
                                  ![i].result = Return(first_page_contents)]
    /\ UNCHANGED <<envVars, faults, cache, now, ticks, budget, pc, cur, last, all_items,
                   first_page_contents, raised, sideVars>>

\* the worker parsing its own page and appending the records itself
FetchResponseAppending(i, resp) ==
    /\ pc \in {"fanout", "shutdown"}
    /\ i \in Running
    /\ resp \in ServerResponses(futures[i].page, remote, faults)
    /\ faults' = FaultsAfter(faults, resp)
    /\ LET got == GetPageContent(variant, resp)
       IN /\ futures' = [futures EXCEPT ![i].state = "finished", ![i].result = got]
          /\ cur' = Noted(cur, resp, got)
          /\ all_items' = all_items \o Parse(cur.id, got.text)
    /\ UNCHANGED <<envVars, cache, now, ticks, budget, pc, last,
                   first_page_contents, raised, sideVars>>

\* the GET of a running fetch returns: _get_page_content finishes in its worker
FetchResponse(i, resp) ==
    /\ pc \in {"fanout", "shutdown"}
    /\ i \in Running
    /\ resp \in ServerResponses(futures[i].page, remote, faults)
    /\ faults' = FaultsAfter(faults, resp)
    /\ LET got == GetPageContent(variant, resp)
       IN /\ futures' = [futures EXCEPT ![i].state = "finished", ![i].result = got]
          /\ cur' = Noted(cur, resp, got)
    /\ UNCHANGED <<envVars, cache, now, ticks, budget, pc, last, all_items,
                   first_page_contents, raised, sideVars>>

(***************************************************************************)
(* The as_completed loop of the calling thread.                            *)
(***************************************************************************)
\* the loop left after the first future it was handed
AllYieldedAfterFirst(i) == TRUE
AllYieldedAfter(i) == \A j \in DOMAIN futures : j = i \/ futures[j].yielded

\* the wait counting only the work items a thread has taken
OutstandingRunning == Running
Outstanding == Pending \cup Running

\* `for item in parser(html_soup): all_items.append(item)`
\* the aggregate assigned instead of extended
ExtendReplacing(items, page_items) == page_items
Extend(items, page_items) == items \o page_items

\* the texts the futures returned, in the order of web_requests
TextsAfter(i, text) ==
    [j \in DOMAIN futures |-> IF j = i THEN text ELSE futures[j].result.text]

\* as_completed yields future i; future.result() returns or re-raises
Consume(i) ==
    /\ pc = "fanout"
    /\ i \in Finished
    /\ ~futures[i].yielded
    /\ LET got == futures[i].result
           items == Extend(all_items, Parse(cur.id, got.text))
           c == [cur EXCEPT !.parsed = Append(@, got.text.page),
                            !.markerParsed = @ \/ got.text.marker]
       IN IF ~got.ok
          THEN IF Outstanding = {}
               THEN /\ EndCall(Failure(cur, got.err))
                    /\ UNCHANGED cache
               ELSE /\ pc' = "shutdown"
                    /\ raised' = got.err
                    /\ futures' = [futures EXCEPT ![i].yielded = TRUE]
                    /\ UNCHANGED <<cache, cur, last, all_items, first_page_contents>>
          ELSE IF AllYieldedAfter(i)
               THEN ReturnItems([c EXCEPT !.texts = TextsAfter(i, got.text)], items)
               ELSE /\ futures' = [futures EXCEPT ![i].yielded = TRUE]
                    /\ all_items' = items
                    /\ cur' = c
                    /\ UNCHANGED <<cache, pc, last, first_page_contents, raised>>
    /\ UNCHANGED <<envVars, faults, now, ticks, budget, sideVars>>

\* executor.shutdown(wait=True) on leaving the with-block returns once every
\* submitted work item has run; then the exception reaches the caller
JoinWorkers ==
    /\ pc = "shutdown"
    /\ Outstanding = {}
    /\ EndCall(Failure(cur, raised))
    /\ UNCHANGED <<envVars, faults, cache, now, ticks, budget, sideVars>>

(***************************************************************************)
(* Time passes between calls.                                              *)
(***************************************************************************)
TickSteps == {Timedelta(0, 30), Timedelta(1, 0) + 1}

Tick(d) ==
    /\ pc = "idle"
    /\ ticks < MaxTicks
    /\ d \in TickSteps
    /\ ticks' = ticks + 1
    /\ now' = now + d
    /\ UNCHANGED <<envVars, faults, cache, budget, pc, cur, last, futures, all_items,
                   first_page_contents, raised, sideVars>>

Next ==
    \/ \E id \in Ids : Call(id)
    \/ \E sf_culture \in {"en", "de"}, path_has_params \in BOOLEAN :
           GetListFromUi(42, sf_culture, path_has_params)
    \/ \E resp \in ServerResponses(1, remote, faults) : FirstPageResponse(resp)
    \/ \E i \in DOMAIN futures : StartFetch(i)
    \/ \E i \in DOMAIN futures : RunLocal(i)
    \/ \E i \in DOMAIN futures :
           \E resp \in ServerResponses(futures[i].page, remote, faults) :
               FetchResponse(i, resp)
    \/ \E i \in DOMAIN futures : Consume(i)
    \/ JoinWorkers
    \/ \E d \in TickSteps : Tick(d)

Spec == Init /\ [][Next]_vars

(***************************************************************************)
(* The same program with its scheduling: every request sent is answered    *)
(* (the server returns or the GET raises), a free worker thread takes the  *)
(* next work item, and the calling thread goes on with its loop and with   *)
(* the exit of the with-block.  The caller is free to make no further      *)
(* call, and the clock to stand still.                                     *)
(***************************************************************************)
Fairness ==
    /\ WF_vars(\E resp \in ServerResponses(1, remote, faults) : FirstPageResponse(resp))
    /\ WF_vars(\E i \in DOMAIN futures : StartFetch(i))
    /\ WF_vars(\E i \in DOMAIN futures : RunLocal(i))
    /\ WF_vars(\E i \in DOMAIN futures :
                   \E resp \in ServerResponses(futures[i].page, remote, faults) :
                       FetchResponse(i, resp))
    /\ WF_vars(\E i \in DOMAIN futures : Consume(i))
    /\ WF_vars(JoinWorkers)

\* one call, against a list of up to FairTotal items
InitFair ==
    /\ InitEndpoint
    /\ remote \in 0..FairTotal
    /\ faults = FairFaults
    /\ budget = 1
    /\ PlanIdle
    /\ KeyIdle
    /\ CacheIdle
    /\ AuthIdle
    /\ AtomIdle

SpecFair == InitFair /\ [][Next]_vars /\ Fairness

(***************************************************************************)
(* The fan-out of a long list: one call against a list of FanoutTotal      *)
(* items.                                                                  *)
(***************************************************************************)
InitFanout ==
    /\ InitEndpoint
    /\ hours = 1
    /\ minutes = 0
    /\ cache = [id \in Ids |-> NoFile]
    /\ remote = FanoutTotal
    /\ faults = FanoutFaults
    /\ budget = 1
    /\ PlanIdle
    /\ KeyIdle
    /\ CacheIdle
    /\ AuthIdle
    /\ AtomIdle

SpecFanout == InitFanout /\ [][Next]_vars

(***************************************************************************)
(* A caller that calls again: RepeatCalls calls in a row.                  *)
(***************************************************************************)
InitRepeat ==
    /\ InitEndpoint
    /\ remote \in 0..MaxTotal
    /\ faults = MaxFaults
    /\ budget = RepeatCalls
    /\ PlanIdle
    /\ KeyIdle
    /\ CacheIdle
    /\ AuthIdle
    /\ AtomIdle

SpecRepeat == InitRepeat /\ [][Next]_vars

(***************************************************************************)
(* The planner on its own: every total up to MaxPlanTotal is handed to the *)
(* planner of the cached variants and to the planner of models/base.py.    *)
(***************************************************************************)
ScrapeIdle ==
    /\ InitEndpoint
    /\ variant = "endpoints"
    /\ hours = 1
    /\ minutes = 0
    /\ cache = [id \in Ids |-> NoFile]
    /\ remote = 0
    /\ faults = 0
    /\ budget = 0

InitPlan ==
    /\ ScrapeIdle
    /\ KeyIdle
    /\ CacheIdle
    /\ AuthIdle
    /\ AtomIdle
    /\ planT \in 0..MaxPlanTotal
    /\ planPc = "ready"
    /\ planUrls = <<>>

PlanEndpoints ==
    /\ planPc = "ready"
    /\ planUrls' = PageUrls(planT)
    /\ planPc' = "endpoints"
    /\ UNCHANGED <<planT, scrapeVars, keyVars, cacheVars, authVars, atomVars>>

PlanBase ==
    /\ planPc = "ready"
    /\ planUrls' = EnumerateListUrls(planT)
    /\ planPc' = "base"
    /\ UNCHANGED <<planT, scrapeVars, keyVars, cacheVars, authVars, atomVars>>

NextPlan == PlanEndpoints \/ PlanBase

SpecPlan == InitPlan /\ [][NextPlan]_vars

(***************************************************************************)
(* BrowseInformationObjectEndpoint._get_cache_id.  A dict is the sequence  *)
(* of its (key, value) items in insertion order.                           *)
(***************************************************************************)
Keys(d) == {d[i][1] : i \in DOMAIN d}

\* d[k] = v: a present key keeps its place, a new key goes to the end
DictSet(d, k, v) ==
    IF k \in Keys(d)
    THEN [i \in DOMAIN d |-> IF d[i][1] = k THEN <<k, v>> ELSE d[i]]
    ELSE Append(d, <<k, v>>)

\* {**d, **e}
RECURSIVE DictMerge(_, _)
DictMerge(d, e) ==
    IF e = <<>> THEN d ELSE DictMerge(DictSet(d, Head(e)[1], Head(e)[2]), Tail(e))

\* json.dumps(d) without sort_keys: the items are written in the dict's order
RECURSIVE JsonDumpsItems(_)
JsonDumpsItems(d) ==
    IF d = <<>> THEN <<>>
    ELSE <<Head(d)[1], ": ", Head(d)[2]>>
             \o (IF Tail(d) = <<>> THEN <<>> ELSE <<", ">>)
             \o JsonDumpsItems(Tail(d))

JsonDumps(d) == <<"{">> \o JsonDumpsItems(d) \o <<"}">>

\* hashlib.md5(...).hexdigest(), taken to be free of collisions
Md5Hexdigest(text) == <<"md5", text>>

GetCacheId(sq, sf, so, filters) ==
    LET combined_dict == DictMerge(DictMerge(DictMerge(sq, sf), so), filters)
        unique_string == JsonDumps(combined_dict)
    IN <<"browse-objects_", Md5Hexdigest(unique_string)>>

\* the dicts a caller can build from the given keys and values
Dicts(keys, values) ==
    {d \in UNION {[1..n -> keys \X values] : n \in 0..MaxParams} :
        \A i, j \in DOMAIN d : i # j => d[i][1] # d[j][1]}

Queries ==
    Dicts({"sq0", "sq1"}, {"a", "b"}) \X Dicts({"sf0"}, {"title"})
        \X Dicts({"so1"}, {"and"}) \X Dicts({"sort", "limit"}, {"10"})

InitKey ==
    /\ ScrapeIdle
    /\ PlanIdle
    /\ CacheIdle
    /\ AuthIdle
    /\ AtomIdle
    /\ query1 \in Queries
    /\ query2 \in Queries
    /\ key1 = <<>>
    /\ key2 = <<>>
    /\ keyPc = "ready"

ComputeCacheIds ==
    /\ keyPc = "ready"
    /\ key1' = GetCacheId(query1[1], query1[2], query1[3], query1[4])
    /\ key2' = GetCacheId(query2[1], query2[2], query2[3], query2[4])
    /\ keyPc' = "done"
    /\ UNCHANGED <<query1, query2, scrapeVars, planVars, cacheVars, authVars, atomVars>>

NextKey == ComputeCacheIds

SpecKey == InitKey /\ [][NextKey]_vars

(***************************************************************************)
(* The real-API endpoints.  `variant` selects the get operation:           *)
(*   "single"  endpoints.py  SingleParameterApiEndpoint.get                *)
(*             (BrowseTaxonomyEndpoint, endpoint_name 'browse-taxonomies') *)
(*   "browse"  endpoints.py  BrowseInformationObjectEndpoint.get           *)
(*   "terms"   atomapi.py    TaxonomyEndpoint.get_terms                    *)
(* A JSON body is the sequence of its members: the elements of a list, or  *)
(* the items of an object in their order ({} and [] are both <<>>; both    *)
(* are falsy and both come back from the cache as they went in).           *)
(***************************************************************************)
ApiVariants == {"single", "browse", "terms"}

\* the values callers pass as object_id / taxonomy_id; v is the number
IntId(n) == [type |-> "int", v |-> n]
StrId(n) == [type |-> "str", v |-> n]
EnumId(n) == [type |-> "enum", v |-> n]

\* str(object_id): 1 and '1' both become '1'
Str(o) == [type |-> "str", v |-> o.v]

\* taxonomy_id.value for a member of TaxonomyEndpoint.Ids
TaxonomyValue(t) == IF t.type = "enum" THEN IntId(t.v) ELSE t

\* the text an f-string or str.format puts in place of the value: its digits
Format(o) == o.v

ObjectIds == {IntId(1), IntId(2), StrId(1)}
TaxonomyArgs == {IntId(34), IntId(42), EnumId(34)}

\* a member {key: value} of a JSON object, a term {'name': ...} of a JSON list
Member(key, value) == [type |-> "item", key |-> key, value |-> value]
Term(of, k) == [type |-> "dict", name |-> <<of, k>>]

ListBody(of, n) == [k \in 1..n |-> Term(of, k)]
ResultsBody(of, n) == <<Member("total", n), Member("results", of)>>
MessageBody(message) == <<Member("message", message)>>

ApiMessages ==
    {"Endpoint not found", "Not authorized", "Taxonomy not found", "Internal Server Error"}

\* 'message' in json_response
\* the test answering False for every body
HasNoMessage(json) == FALSE
HasMessage(json) ==
    \E i \in DOMAIN json : json[i].type = "item" /\ json[i].key = "message"

\* json_response['message']
MessageOf(json) ==
    json[CHOOSE i \in DOMAIN json : json[i].type = "item" /\ json[i].key = "message"].value

\* `text in message`, on the messages the server sends
Contains(message, text) == message = text

\* iterating the body yields str keys: item['name'] raises TypeError
YieldsKeys(json) == \E i \in DOMAIN json : json[i].type = "item"

\* [item['name'] for item in json_response]
Names(json) == [i \in DOMAIN json |-> [type |-> "str", name |-> json[i].name]]

(***************************************************************************)
(* BrowseInformationObjectEndpoint: the validation of the query dicts.     *)
(***************************************************************************)
\* QUERY_VALIDATORS[code]['regex'].match(key) on the keys callers use here:
\* the two-letter code and the index the key carries, code "" for no match.
\* The patterns end in `$`, which also matches before a newline that ends the
\* key: r'^sq(?P<index>\d+)$' matches "sq0\n" with index "0"
KeyShape(key) ==
    CASE key = "sq0" -> [code |-> "sq", index |-> 0]
      [] key = "sq0\n" -> [code |-> "sq", index |-> 0]
      [] key = "sq00" -> [code |-> "sq", index |-> 0]
      [] key = "sq1" -> [code |-> "sq", index |-> 1]
      [] key = "sf0" -> [code |-> "sf", index |-> 0]
      [] key = "so1" -> [code |-> "so", index |-> 1]
      [] OTHER -> [code |-> "", index |-> -1]

\* _validate_query_parameters returns without raising ValueError
ValidQueryParameters(queries, two_letter_code) ==
    \A i \in DOMAIN queries :
        /\ KeyShape(queries[i][1]).code = two_letter_code
        /\ \A j \in 1..(i - 1) : KeyShape(queries[j][1]).index # KeyShape(queries[i][1]).index
        /\ queries[i][2] # ""

ValidSo(so) ==
    /\ ValidQueryParameters(so, "so")
    /\ \A i \in DOMAIN so : so[i][2] \in {"and", "or", "not"}

\* the tuple as Python reads it: the first seven literals have no comma between
\* them and are one string
VALID_FILTERS ==
    {"limitskipsortlastUpdatedtopLodonlyMediacopyrightStatus", "materialType", "languages",
     "levels", "mediatypes", "repos", "places", "subjects", "genres", "creators", "names",
     "collection", "startDate", "endDate", "rangeType"}

ValidFilters(filters) ==
    \A i \in DOMAIN filters : filters[i][1] \in VALID_FILTERS /\ filters[i][2] # ""

\* the four _validate_ calls of get pass
ValidQuery(q) ==
    /\ ValidQueryParameters(q[1], "sq")
    /\ ValidQueryParameters(q[2], "sf")
    /\ ValidSo(q[3])
    /\ ValidFilters(q[4])

\* params = {**sq, **sf, **so, **filters}
Params(q) == DictMerge(DictMerge(DictMerge(q[1], q[2]), q[3]), q[4])

\* the query of examples/browseinfoobject.example.py
ExampleQuery ==
    << <<<<"sq0", "coffee">>, <<"sq1", "chocolate">>>>, <<>>, <<<<"so1", "or">>>>,
       <<<<"startDate", "1990-01-01">>, <<"endDate", "2001-03-04">>,
         <<"rangeType", "inclusive">>, <<"sort", "date">>>> >>

\* the queries <<sq, sf, so, filters>> callers make here
ApiQueries ==
    {<< <<<<"sq0", "a">>>>, <<<<"sf0", "title">>>>, <<>>, <<<<"startDate", "2000">>>> >>,
     << <<<<"sq0", "b">>>>, <<<<"sf0", "title">>>>, <<>>, <<>> >>,
     << <<<<"sq0", "a">>, <<"sq00", "b">>>>, <<>>, <<<<"so1", "and">>>>, <<>> >>,
     << <<<<"sq0", "a">>, <<"sq1", "b">>>>, <<>>, <<<<"so1", "xor">>>>, <<>> >>,
     << <<<<"sq0", "a">>>>, <<>>, <<>>, <<<<"sort", "alphabetic">>>> >>,
     << <<<<"sq0", "a">>>>, <<>>, <<>>, <<<<"colour", "red">>>> >>,
     << <<<<"sq0\n", "a">>>>, <<>>, <<>>, <<>> >>,
     << <<<<"query0", "a">>>>, <<>>, <<>>, <<>> >>,
     << <<<<"sq0", "a">>>>, <<<<"sf0", "">>>>, <<>>, <<>> >>,
     << <<<<"sq0", "a">>>>, <<>>, <<>>, <<<<"startDate", "">>>> >>,
     ExampleQuery}

(***************************************************************************)
(* The get operations.                                                     *)
(***************************************************************************)
ApiArgs(v) ==
    IF v = "single" THEN ObjectIds ELSE IF v = "browse" THEN ApiQueries ELSE TaxonomyArgs

\* the name the response is cached under; Cache.get_storage_location formats
\* it into the file name
ApiCacheId(v, arg) ==
    IF v = "single" THEN <<"browse-taxonomies_", Format(Str(arg))>>
    ELSE IF v = "browse" THEN GetCacheId(arg[1], arg[2], arg[3], arg[4])
    ELSE Format(TaxonomyValue(arg))

StorageNames(v) == {ApiCacheId(v, arg) : arg \in ApiArgs(v)}

\* what the request asks the server for: the identifier in the URL, or the
\* query parameters
\* params = {'sf_culture': self.sf_culture} if self.sf_culture else {}
CultureParams(c) == IF c # "" THEN {<<"sf_culture", c>>} ELSE {}

Asked(v, arg) ==
    IF v = "single" THEN <<Format(Str(arg)), CultureParams(culture)>>
    ELSE IF v = "browse"
    THEN <<{Params(arg)[i] : i \in DOMAIN Params(arg)}, CultureParams(culture)>>
    ELSE <<Format(TaxonomyValue(arg)), {}>>

ApiResponse(status, json) == [status |-> status, json |-> json]

\* the answers of the server to one request
ApiResponses(v, arg) ==
    {ApiResponse(500, <<>>)}
        \cup {ApiResponse(200, MessageBody(m)) : m \in ApiMessages}
        \cup (IF v = "browse"
              THEN {ApiResponse(200, ResultsBody(Asked(v, arg), n)) : n \in 0..MaxTerms}
              ELSE {ApiResponse(200, ListBody(Asked(v, arg), n)) : n \in 0..MaxTerms})

\* `if self.cache.hours + self.cache.minutes > 0`; get_terms has no such test
UsesCache(v, h, m) == IF v = "terms" THEN TRUE ELSE h + m > 0

InitApi ==
    /\ variant \in ApiVariants
    /\ api_key \in {"", "123456"}
    /\ culture = ""
    /\ hours \in {0, 1}
    /\ minutes \in {0, 30}
    /\ remote = 0
    /\ faults = 0
    /\ cache \in {c \in [StorageNames(variant) -> {NoFile, EarlierFile}] :
                    Cardinality({name \in StorageNames(variant) : c[name].exists}) <= 1}
    /\ now = 0
    /\ ticks = 0
    /\ budget = ApiCalls
    /\ pc = "idle"
    /\ cur = NoCall
    /\ last = NoCall
    /\ futures = <<>>
    /\ all_items = <<>>
    /\ first_page_contents = NoResponse
    /\ raised = ""
    /\ PlanIdle
    /\ KeyIdle
    /\ CacheIdle
    /\ AuthIdle
    /\ AtomIdle

\* session.authorized_session.get(url, ...) goes out
SendRequest(record) ==
    /\ cur' = [record EXCEPT !.requested = <<1>>]
    /\ pc' = "api_request"
    /\ last' = NoCall
    /\ UNCHANGED <<futures, all_items, first_page_contents, raised>>

\* get(object_id) / get(sq, sf, so, filters) / get_terms(taxonomy_id), up to
\* the request
ApiGet(arg) ==
    /\ variant \in ApiVariants
    /\ pc = "idle"
    /\ budget > 0
    /\ budget' = budget - 1
    /\ LET c == NewCall(arg, now)
           r == CacheRetrieve(cache, ApiCacheId(variant, arg), now)
           read == [c EXCEPT !.cacheReads = 1]
       IN IF api_key = ""
          THEN EndCall(Failure(c, "ValueError"))
          ELSE IF variant = "browse" /\ ~ValidQuery(arg)
          THEN EndCall(Failure(c, "ValueError"))
          ELSE IF ~UsesCache(variant, hours, minutes)
          THEN SendRequest(c)
          ELSE IF Truthy(r)
          THEN EndCall([read EXCEPT !.kind = "ok", !.value = r.value, !.source = "cache",
                                    !.expires = cache[ApiCacheId(variant, arg)].expires])
          ELSE SendRequest(read)
    /\ UNCHANGED <<envVars, faults, cache, now, ticks, sideVars>>

\* return value, after self.cache.store(name, value) where the code stores
ApiReturn(record, value, stores) ==
    IF stores
    THEN /\ cache' = CacheStore(cache, ApiCacheId(variant, record.id), value, now,
                                hours, minutes)
         /\ EndCall([record EXCEPT !.kind = "ok", !.value = value, !.source = "api",
                                   !.cacheWrites = @ + 1,
                                   !.expires = Strftime(now + Timedelta(hours, minutes))])
    ELSE /\ UNCHANGED cache
         /\ EndCall([record EXCEPT !.kind = "ok", !.value = value, !.source = "api"])

ApiRaise(record, err) ==
    /\ UNCHANGED cache
    /\ EndCall(Failure(record, err))

\* endpoints.py: from response.raise_for_status() to the return
GetResponse(resp) ==
    LET c == [cur EXCEPT !.body = resp.json, !.failed = RaisesForStatus(resp)]
    IN IF RaisesForStatus(resp) THEN ApiRaise(c, "HTTPError")
       ELSE IF HasMessage(resp.json)
       THEN IF Contains(MessageOf(resp.json), "Endpoint not found")
            THEN ApiRaise(c, "ConnectionError")
            ELSE ApiReturn(c, resp.json, FALSE)
       ELSE ApiReturn(c, resp.json, UsesCache(variant, hours, minutes))

\* atomapi.py: from response.raise_for_status() to the return
GetTermsResponse(resp) ==
    LET c == [cur EXCEPT !.body = resp.json, !.failed = RaisesForStatus(resp)]
    IN IF RaisesForStatus(resp) THEN ApiRaise(c, "HTTPError")
       ELSE IF HasMessage(resp.json)
               /\ (\/ Contains(MessageOf(resp.json), "Taxonomy not found")
                   \/ Contains(MessageOf(resp.json), "Endpoint not found"))
       THEN ApiReturn(c, <<>>, FALSE)
       ELSE IF YieldsKeys(resp.json) THEN ApiRaise(c, "TypeError")
       ELSE ApiReturn(c, Names(resp.json), TRUE)

\* the response of the server arrives
ApiAnswer(resp) ==
    /\ pc = "api_request"
    /\ resp \in ApiResponses(variant, cur.id)
    /\ IF variant = "terms" THEN GetTermsResponse(resp) ELSE GetResponse(resp)
    /\ UNCHANGED <<envVars, faults, now, ticks, budget, sideVars>>

NextApi ==
    \/ \E arg \in ApiArgs(variant) : ApiGet(arg)
    \/ /\ pc = "api_request"
       /\ \E resp \in ApiResponses(variant, cur.id) : ApiAnswer(resp)
    \/ \E d \in TickSteps : Tick(d)

SpecApi == InitApi /\ [][NextApi]_vars

(***************************************************************************)
(* Several endpoint objects of one host in one process: the real-API       *)
(* taxonomy endpoint of atomapi.py and the two cached virtual endpoints,   *)
(* constructed with the same host and TTL.  Their Cache objects have the   *)
(* same prefix (the host) and so the same files.                           *)
(***************************************************************************)
SharedEndpoints == {"terms", "atomapi", "endpoints"}

\* the api_key the endpoint object was constructed with
ApiKeyOf(v) == IF v = "terms" THEN "123456" ELSE ""

InitShared ==
    /\ variant \in SharedEndpoints
    /\ api_key = ApiKeyOf(variant)
    /\ culture = ""
    /\ hours = 1
    /\ minutes = 0
    /\ remote \in {1, SharedTotal}
    /\ faults = 1
    /\ cache = [id \in Ids |-> NoFile]
    /\ now = 0
    /\ ticks = 0
    /\ budget = SharedCalls
    /\ pc = "idle"
    /\ cur = NoCall
    /\ last = NoCall
    /\ futures = <<>>
    /\ all_items = <<>>
    /\ first_page_contents = NoResponse
    /\ raised = ""
    /\ PlanIdle
    /\ KeyIdle
    /\ CacheIdle
    /\ AuthIdle
    /\ AtomIdle

\* the caller turns to another of its endpoint objects
UseEndpoint(v) ==
    /\ pc = "idle"
    /\ v \in SharedEndpoints
    /\ v # variant
    /\ variant' = v
    /\ api_key' = ApiKeyOf(v)
    /\ UNCHANGED <<culture, hours, minutes, remote, faults, cache, now, ticks, budget, pc,
                   cur, last, futures, all_items, first_page_contents, raised, sideVars>>

NextShared ==
    \/ \E v \in SharedEndpoints : UseEndpoint(v)
    \/ /\ variant = "terms"
       /\ \E arg \in TaxonomyArgs : ApiGet(arg)
    \/ /\ variant = "terms"
       /\ pc = "api_request"
       /\ \E resp \in ApiResponses(variant, cur.id) : ApiAnswer(resp)
    \/ \E id \in Ids : Call(id)
    \/ \E resp \in ServerResponses(1, remote, faults) : FirstPageResponse(resp)
    \/ \E i \in DOMAIN futures : StartFetch(i)
    \/ \E i \in DOMAIN futures : RunLocal(i)
    \/ \E i \in DOMAIN futures :
           \E resp \in ServerResponses(futures[i].page, remote, faults) :
               FetchResponse(i, resp)
    \/ \E i \in DOMAIN futures : Consume(i)
    \/ JoinWorkers

SpecShared == InitShared /\ [][NextShared]_vars

(***************************************************************************)
(* Endpoint objects of one host and one endpoint that differ in their      *)
(* sf_culture.                                                             *)
(***************************************************************************)
Cultures == {"", "en", "fr"}

InitCulture ==
    /\ variant \in {"single", "browse"}
    /\ api_key = "123456"
    /\ culture \in Cultures
    /\ hours = 1
    /\ minutes = 0
    /\ remote = 0
    /\ faults = 0
    /\ cache = [name \in StorageNames(variant) |-> NoFile]
    /\ now = 0
    /\ ticks = 0
    /\ budget = CultureCalls
    /\ pc = "idle"
    /\ cur = NoCall
    /\ last = NoCall
    /\ futures = <<>>
    /\ all_items = <<>>
    /\ first_page_contents = NoResponse
    /\ raised = ""
    /\ PlanIdle
    /\ KeyIdle
    /\ CacheIdle
    /\ AuthIdle
    /\ AtomIdle

\* the caller turns to the endpoint object constructed with sf_culture c
UseCulture(c) ==
    /\ pc = "idle"
    /\ c \in Cultures
    /\ c # culture
    /\ culture' = c
    /\ UNCHANGED <<variant, api_key, hours, minutes, remote, faults, cache, now, ticks, budget,
                   pc, cur, last, futures, all_items, first_page_contents, raised, sideVars>>

NextCulture ==
    \/ \E c \in Cultures : UseCulture(c)
    \/ \E arg \in ApiArgs(variant) : ApiGet(arg)
    \/ /\ pc = "api_request"
       /\ \E resp \in ApiResponses(variant, cur.id) : ApiAnswer(resp)

SpecCulture == InitCulture /\ [][NextCulture]_vars

(***************************************************************************)
(* The Cache object on its own (cache.py): store, retrieve and the two     *)
(* setters, called by one caller (SpecCache) or by two processes at once   *)
(* (SpecCacheRace).  store is open(location, 'w'), which creates or        *)
(* truncates the file, followed by json.dump and the close; retrieve is    *)
(* the json.load of the file, and after a JSONDecodeError the exists()     *)
(* test and the os.remove.                                                 *)
(***************************************************************************)
CacheNames == {"k", "j"}

\* the objects callers store
CacheObjects == {<<>>, Parse(102, ListPage(1, 1))}

\* a file another run left complete, and one it left cut short
OldFile ==
    [exists |-> TRUE, expires |-> Timedelta(2, 0), object |-> JsonRoundTrip(Parse(42, ListPage(1, 2)))]
TruncatedFile == [exists |-> TRUE, expires |-> 0, object |-> <<>>]

Busy(call) == call.pc \notin {"idle", "done"}

\* with one caller a call begins when no other call is in progress
MayBegin(call, other) == ~Busy(call) /\ (callers = 1 => ~Busy(other))

InitCacheAlone ==
    /\ variant = "endpoints"
    /\ api_key = ""
    /\ culture = ""
    /\ remote = 0
    /\ faults = 0
    /\ hours \in {0, 1}
    /\ minutes \in {0, 30}
    /\ \E file \in {NoFile, OldFile, TruncatedFile} :
           /\ cache = [name \in CacheNames |-> IF name = "k" THEN file ELSE NoFile]
           /\ partial = IF file = TruncatedFile THEN {"k"} ELSE {}
    /\ now = 0
    /\ ticks = 0
    /\ budget = CacheOps
    /\ pc = "idle"
    /\ cur = NoCall
    /\ last = NoCall
    /\ futures = <<>>
    /\ all_items = <<>>
    /\ first_page_contents = NoResponse
    /\ raised = ""
    /\ store_call = NoStore
    /\ retrieve_call = NoRetrieve
    /\ set_call = NoSet
    /\ stored = [name \in CacheNames |-> NoEntry]
    /\ PlanIdle
    /\ KeyIdle
    /\ AuthIdle
    /\ AtomIdle

\* store(name, obj) up to open(location, 'w'): expire_time is computed, the
\* file is created or truncated
StoreOpen(name, obj) ==
    /\ MayBegin(store_call, retrieve_call)
    /\ budget > 0
    /\ budget' = budget - 1
    /\ store_call' = [pc |-> "opened", name |-> name, obj |-> obj, at |-> now,
                      hours |-> hours, minutes |-> minutes, orphaned |-> FALSE]
    /\ cache' = [cache EXCEPT ![name] = TruncatedFile]
    /\ partial' = partial \cup {name}
    /\ UNCHANGED <<engineVars, hours, minutes, now, ticks, planVars, keyVars, authVars, atomVars,
                   callers, retrieve_call, set_call, stored>>

\* json.dump and the close of the with-block: the structure is in the file the
\* descriptor refers to, which is the file at the location unless that was
\* removed in the meantime
StoreDump ==
    /\ store_call.pc = "opened"
    /\ store_call' = [store_call EXCEPT !.pc = "done"]
    /\ IF store_call.orphaned
       THEN UNCHANGED <<cache, partial>>
       ELSE /\ cache' = CacheStore(cache, store_call.name, store_call.obj, store_call.at,
                                   store_call.hours, store_call.minutes)
            /\ partial' = partial \ {store_call.name}
    /\ stored' = [stored EXCEPT ![store_call.name] =
                      [written |-> TRUE, at |-> store_call.at,
                       ttl |-> Timedelta(store_call.hours, store_call.minutes),
                       object |-> store_call.obj]]
    /\ UNCHANGED <<engineVars, hours, minutes, now, ticks, budget, planVars, keyVars, authVars, atomVars,
                   callers, retrieve_call, set_call>>

Retrieved(call, r) == [call EXCEPT !.pc = "done", !.found = r.found, !.value = r.value]

\* retrieve(name) up to the return or the JSONDecodeError
RetrieveLoad(name) ==
    /\ MayBegin(retrieve_call, store_call)
    /\ budget > 0
    /\ budget' = budget - 1
    /\ LET call == [NoRetrieve EXCEPT !.name = name, !.at = now]
       IN retrieve_call' =
              IF ~cache[name].exists THEN Retrieved(call, None)
              ELSE IF name \in partial THEN [call EXCEPT !.pc = "decode_error"]
              ELSE Retrieved([call EXCEPT !.entry = stored[name]],
                             CacheRetrieve(cache, name, now))
    /\ UNCHANGED <<engineVars, hours, minutes, cache, now, ticks, planVars, keyVars, authVars, atomVars,
                   callers, store_call, set_call, partial, stored>>

\* except JSONDecodeError: `location.exists()`
RetrieveExists ==
    /\ retrieve_call.pc = "decode_error"
    /\ retrieve_call' = IF cache[retrieve_call.name].exists
                        THEN [retrieve_call EXCEPT !.pc = "removing"]
                        ELSE Retrieved(retrieve_call, None)
    /\ UNCHANGED <<engineVars, hours, minutes, cache, now, ticks, budget, planVars, keyVars,
                   authVars, atomVars, callers, store_call, set_call, partial, stored>>

\* os.remove(location), then return None; the file a store has open lives on
\* without a name
RetrieveRemove ==
    /\ retrieve_call.pc = "removing"
    /\ IF cache[retrieve_call.name].exists
       THEN /\ cache' = [cache EXCEPT ![retrieve_call.name] = NoFile]
            /\ partial' = partial \ {retrieve_call.name}
            /\ store_call' = [store_call EXCEPT !.orphaned =
                                  @ \/ (store_call.pc = "opened"
                                          /\ store_call.name = retrieve_call.name)]
            /\ retrieve_call' = Retrieved(retrieve_call, None)
       ELSE /\ retrieve_call' = [retrieve_call EXCEPT !.pc = "done",
                                                      !.err = "FileNotFoundError"]
            /\ UNCHANGED <<cache, partial, store_call>>
    /\ UNCHANGED <<engineVars, hours, minutes, now, ticks, budget, planVars, keyVars, authVars, atomVars,
                   callers, set_call, stored>>

\* Cache(expire_hours, expire_minutes) where the caller had a Cache of the same
\* prefix: both arguments are checked before either is assigned, and a
\* constructor that raises leaves the caller with the object it had
CacheInit(expire_hours, expire_minutes) ==
    /\ ~Busy(store_call)
    /\ ~Busy(retrieve_call)
    /\ <<expire_hours, expire_minutes>> # <<hours, minutes>>
    /\ budget > 0
    /\ budget' = budget - 1
    /\ IF expire_hours < 0 \/ expire_minutes < 0
       THEN /\ set_call' = [op |-> "Cache", arg |-> <<expire_hours, expire_minutes>>,
                            err |-> "ValueError"]
            /\ UNCHANGED <<hours, minutes>>
       ELSE /\ set_call' = [op |-> "Cache", arg |-> <<expire_hours, expire_minutes>>,
                            err |-> ""]
            /\ hours' = expire_hours
            /\ minutes' = expire_minutes
    /\ UNCHANGED <<engineVars, cache, now, ticks, planVars, keyVars, authVars, atomVars,
                   callers, store_call, retrieve_call, partial, stored>>

\* the setter without its test
SetExpireHoursUnchecked(h) ==
    /\ ~Busy(store_call)
    /\ ~Busy(retrieve_call)
    /\ h # hours
    /\ budget > 0
    /\ budget' = budget - 1
    /\ set_call' = [op |-> "set_expire_hours", arg |-> <<h>>, err |-> ""]
    /\ hours' = h
    /\ UNCHANGED <<engineVars, minutes, cache, now, ticks, planVars, keyVars, authVars, atomVars,
                   callers, store_call, retrieve_call, partial, stored>>

\* set_expire_hours(h)
SetExpireHours(h) ==
    /\ ~Busy(store_call)
    /\ ~Busy(retrieve_call)
    /\ h # hours
    /\ budget > 0
    /\ budget' = budget - 1
    /\ IF h < 0
       THEN /\ set_call' = [op |-> "set_expire_hours", arg |-> <<h>>, err |-> "ValueError"]
            /\ UNCHANGED hours
       ELSE /\ set_call' = [op |-> "set_expire_hours", arg |-> <<h>>, err |-> ""]
            /\ hours' = h
    /\ UNCHANGED <<engineVars, minutes, cache, now, ticks, planVars, keyVars, authVars, atomVars,
                   callers, store_call, retrieve_call, partial, stored>>

\* set_expire_minutes(m)
SetExpireMinutes(m) ==
    /\ ~Busy(store_call)
    /\ ~Busy(retrieve_call)
    /\ m # minutes
    /\ budget > 0
    /\ budget' = budget - 1
    /\ IF m < 0
       THEN /\ set_call' = [op |-> "set_expire_minutes", arg |-> <<m>>, err |-> "ValueError"]
            /\ UNCHANGED minutes
       ELSE /\ set_call' = [op |-> "set_expire_minutes", arg |-> <<m>>, err |-> ""]
            /\ minutes' = m
    /\ UNCHANGED <<engineVars, hours, cache, now, ticks, planVars, keyVars, authVars, atomVars,
                   callers, store_call, retrieve_call, partial, stored>>

\* half a second, and the two TTLs callers configure
CacheSteps == {1, Timedelta(0, 30), Timedelta(1, 0)}

CacheTick(d) ==
    /\ ~Busy(store_call)
    /\ ~Busy(retrieve_call)
    /\ ticks < MaxCacheTicks
    /\ d \in CacheSteps
    /\ ticks' = ticks + 1
    /\ now' = now + d
    /\ UNCHANGED <<engineVars, hours, minutes, cache, budget, planVars, keyVars, authVars, atomVars,
                   cacheVars>>

NextCache ==
    \/ \E name \in CacheNames, obj \in CacheObjects : StoreOpen(name, obj)
    \/ StoreDump
    \/ \E name \in CacheNames : RetrieveLoad(name)
    \/ RetrieveExists
    \/ RetrieveRemove
    \/ \E expire_hours \in {-1, 0, 1}, expire_minutes \in {-1, 0, 30} :
           CacheInit(expire_hours, expire_minutes)
    \/ \E h \in {-1, 0, 1} : SetExpireHours(h)
    \/ \E m \in {-1, 0, 30} : SetExpireMinutes(m)
    \/ \E d \in CacheSteps : CacheTick(d)

InitCache == InitCacheAlone /\ callers = 1

SpecCache == InitCache /\ [][NextCache]_vars

InitCacheRace == InitCacheAlone /\ callers = 2

SpecCacheRace == InitCacheRace /\ [][NextCache]_vars

(***************************************************************************)
(* The TTL of one Cache on its own: constructions and setter calls, in     *)
(* any order.                                                              *)
(***************************************************************************)
InitTtl ==
    /\ variant = "endpoints"
    /\ api_key = ""
    /\ culture = ""
    /\ remote = 0
    /\ faults = 0
    /\ hours \in {0, 1}
    /\ minutes \in {0, 30}
    /\ cache = [name \in CacheNames |-> NoFile]
    /\ partial = {}
    /\ now = 0
    /\ ticks = 0
    /\ budget = TtlCalls
    /\ pc = "idle"
    /\ cur = NoCall
    /\ last = NoCall
    /\ futures = <<>>
    /\ all_items = <<>>
    /\ first_page_contents = NoResponse
    /\ raised = ""
    /\ callers = 1
    /\ store_call = NoStore
    /\ retrieve_call = NoRetrieve
    /\ set_call = NoSet
    /\ stored = [name \in CacheNames |-> NoEntry]
    /\ PlanIdle
    /\ KeyIdle
    /\ AuthIdle
    /\ AtomIdle

NextTtl ==
    \/ \E expire_hours \in {-1, 0, 1}, expire_minutes \in {-1, 0, 30} :
           CacheInit(expire_hours, expire_minutes)
    \/ \E h \in {-1, 0, 1} : SetExpireHours(h)
    \/ \E m \in {-1, 0, 30} : SetExpireMinutes(m)

SpecTtl == InitTtl /\ [][NextTtl]_vars

(***************************************************************************)
(* F5Authorizer (authorizer.py).  get_credentials is wrapped in            *)
(* lru_cache(maxsize=10): one cache for the whole process, keyed by the    *)
(* login URL.  A miss prompts the user; what the user enters is an input.  *)
(***************************************************************************)
AuthUrls == {"https://a", "https://a/", "https://b"}

\* url.rstrip('/')
Rstrip(url) == IF url = "https://a/" THEN "https://a" ELSE url

\* f'{self.url}/my.policy'
LoginUrl(url) == <<Rstrip(url), "/my.policy">>

\* the F5Authorizer objects of the process
Authorizers == [url : AuthUrls, cache_credentials : BOOLEAN]

\* what prompt_for_username_password returns
Entered == {"alice:right", "alice:wrong"}

\* what the server does with the two posts
AuthAnswers ==
    {"unreachable", "status 500", "maximum number of concurrent user sessions",
     "password is not correct", "Access was denied by the access policy", "welcome"}

\* get_credentials.cache_clear()
CacheClear(c) == <<>>

LruHit(c, login_url) == \E i \in DOMAIN c : c[i].login_url = login_url

LruValue(c, login_url) == c[CHOOSE i \in DOMAIN c : c[i].login_url = login_url].login_data

\* the cache after get_credentials(login_url): a hit becomes the most recently
\* used entry; a miss prompts, stores the answer and drops the least recently
\* used entry when there are more than maxsize
LruAfter(c, login_url, entered) ==
    IF LruHit(c, login_url)
    THEN Append(SelectSeq(c, LAMBDA e : e.login_url # login_url),
                [login_url |-> login_url, login_data |-> LruValue(c, login_url)])
    ELSE LET added == Append(c, [login_url |-> login_url, login_data |-> entered])
         IN IF Len(added) > LRU_MAXSIZE THEN Tail(added) ELSE added

\* the exception authorize ends in, "" when it returns the session
AuthError(answer) ==
    CASE answer = "unreachable" -> "ConnectionError"
      [] answer = "status 500" -> "HTTPError"
      [] answer = "welcome" -> ""
      [] OTHER -> "ConnectionError"

InitAuth ==
    /\ InitEndpoint
    /\ variant = "endpoints"
    /\ hours = 1
    /\ minutes = 0
    /\ cache = [id \in Ids |-> NoFile]
    /\ remote = 0
    /\ faults = 0
    /\ budget = AuthCalls
    /\ PlanIdle
    /\ KeyIdle
    /\ CacheIdle
    /\ AuthIdle
    /\ AtomIdle

\* F5Authorizer.authorize(): what it does to the credentials cache
F5Authorize(a, entered, answer) ==
    LET login_url == LoginUrl(a.url)
        kept == IF a.cache_credentials THEN credentials ELSE CacheClear(credentials)
        call == [NoAuth EXCEPT !.url = login_url,
                               !.cache_credentials = a.cache_credentials,
                               !.earlier = login_url \in prompted_urls,
                               !.err = AuthError(answer)]
    IN IF answer = "unreachable"
       THEN /\ auth_call' = call
            /\ UNCHANGED <<credentials, prompted_urls>>
       ELSE /\ credentials' = LruAfter(kept, login_url, entered)
            /\ auth_call' = [call EXCEPT !.prompted = ~LruHit(kept, login_url),
                                         !.login_data =
                                             LruValue(credentials', login_url)]
            /\ prompted_urls' = IF a.cache_credentials
                                THEN prompted_urls \cup {login_url}
                                ELSE prompted_urls

\* authorizer.authorize()
Authorize(a, entered, answer) ==
    /\ budget > 0
    /\ budget' = budget - 1
    /\ F5Authorize(a, entered, answer)
    /\ UNCHANGED <<engineVars, hours, minutes, cache, now, ticks, planVars, keyVars,
                   cacheVars, atomVars>>

NextAuth ==
    \E a \in Authorizers, entered \in Entered, answer \in AuthAnswers :
        Authorize(a, entered, answer)

SpecAuth == InitAuth /\ [][NextAuth]_vars

(***************************************************************************)
(* Atom (atom.py): one Atom object, its lazily created session and its     *)
(* get.  A path is the sequence of its parts, "/" being a part of its own; *)
(* a dict is the sequence of its items.                                    *)
(***************************************************************************)
AtomUrl == "https://a"

\* the paths callers ask for
AtomPaths ==
    {<<"api", "/", "taxonomies">>, <<"/", "/", "api", "/", "taxonomies">>,
     <<"subjects">>, <<"/", "apidocs">>}

\* the params callers pass; a call without params behaves as one with {}
AtomParams ==
    {<<>>, <<<<"page", "2">>>>, <<<<"sf_culture", "de">>, <<"page", "2">>>>}

\* the module atomapi.languages: the two-letter codes of ISO 639-1
ISO_639_1_LANGUAGES == {"en", "fr", "de"}

\* the cultures callers ask for
AtomCultures == {"en", "fr", "english"}

\* path.lstrip('/')
RECURSIVE Lstrip(_)
Lstrip(path) ==
    IF path # <<>> /\ Head(path) = "/" THEN Lstrip(Tail(path)) ELSE path

\* the test putting the key on every request
IsApiPathAlways(path) == TRUE
\* path.lstrip('/').startswith('api/')
IsApiPath(path) ==
    LET p == Lstrip(path) IN Len(p) >= 2 /\ p[1] = "api" /\ p[2] = "/"

BasicAuthorizer(url) == [class |-> "BasicAuthorizer", url |-> url, cache_credentials |-> FALSE]
F5Authorizer(url, cache_credentials) ==
    [class |-> "F5Authorizer", url |-> url, cache_credentials |-> cache_credentials]

\* the authorizers given to the constructor or to set_authorizer
AtomAuthorizers == {BasicAuthorizer(AtomUrl), F5Authorizer(AtomUrl, TRUE)}

\* the exception authorize() of the authorizer ends in, "" when it returns
AuthorizeError(a, answer) ==
    IF a.class = "F5Authorizer" THEN AuthError(answer) ELSE ""

\* a session created for every request
NeedsAuthorizeAlways == TRUE
\* `if self._lazy_session is None`
NeedsAuthorize == lazy_session = NoSession

InitAtom ==
    /\ InitEndpoint
    /\ variant = "endpoints"
    /\ hours = 1
    /\ minutes = 0
    /\ cache = [id \in Ids |-> NoFile]
    /\ remote = 0
    /\ faults = 0
    /\ budget = AtomCalls
    /\ PlanIdle
    /\ KeyIdle
    /\ CacheIdle
    /\ AuthIdle
    /\ lazy_session = NoSession
    /\ authorizer \in AtomAuthorizers \cup {NoAuthorizer}
    /\ authorized = 0
    /\ atom_call = NoGet

\* set_authorizer(a)
SetAuthorizer(a) ==
    /\ a # authorizer
    /\ authorizer' = a
    /\ UNCHANGED <<scrapeVars, planVars, keyVars, cacheVars, authVars, lazy_session,
                   authorized, atom_call>>

\* set_api_key(key)
SetApiKey(key) ==
    /\ key # api_key
    /\ api_key' = key
    /\ UNCHANGED <<variant, culture, hours, minutes, remote, faults, cache, now, ticks,
                   budget, pc, cur, last, futures, all_items, first_page_contents, raised,
                   sideVars>>

\* session.get(request_url, headers=headers, params=params) on the session,
\* then response.raise_for_status()
Requested(call, session, headers, sent, status) ==
    [call EXCEPT !.session = session, !.headers = headers, !.sent = sent,
                 !.request_url = <<AtomUrl, "/">> \o Lstrip(call.path),
                 !.status = status,
                 !.err = IF status >= 400 THEN "HTTPError" ELSE ""]

\* get(path, params, sf_culture); `answer` is what the login server does when
\* the session is created, `status` the status of the response
Get(path, params, sf_culture, entered, answer, status) ==
    /\ budget > 0
    /\ budget' = budget - 1
    /\ LET call == [NoGet EXCEPT !.n = atom_call.n + 1, !.api_key = api_key,
                                 !.path = path, !.given = params,
                                 !.params = params, !.sf_culture = sf_culture]
           headers == IF IsApiPath(path) THEN <<<<"REST-API-Key", api_key>>>> ELSE <<>>
           \* `if not params: params = {}` binds the name to a new dict;
           \* params['sf_culture'] = sf_culture writes to the dict the name is bound to
           sent == IF sf_culture # "" THEN DictSet(params, "sf_culture", sf_culture)
                   ELSE params
           written == [call EXCEPT !.params = IF params = <<>> THEN params ELSE sent]
           used == IF authorizer = NoAuthorizer THEN BasicAuthorizer(AtomUrl) ELSE authorizer
       IN IF sf_culture \notin ISO_639_1_LANGUAGES
          THEN /\ atom_call' = [call EXCEPT !.err = "ValueError"]
               /\ UNCHANGED <<lazy_session, authorizer, authorized, authVars>>
          ELSE IF IsApiPath(path) /\ api_key = ""
          THEN /\ atom_call' = [call EXCEPT !.err = "ConnectionError"]
               /\ UNCHANGED <<lazy_session, authorizer, authorized, authVars>>
          ELSE IF NeedsAuthorize
          THEN /\ authorizer' = used
               /\ IF used.class = "F5Authorizer"
                  THEN F5Authorize(used, entered, answer)
                  ELSE UNCHANGED authVars
               /\ IF AuthorizeError(used, answer) # ""
                  THEN /\ atom_call' = [written EXCEPT !.authorize_calls = 1,
                                                       !.err = AuthorizeError(used, answer)]
                       /\ UNCHANGED <<lazy_session, authorized>>
                  ELSE /\ lazy_session' = [id |-> authorized + 1, by |-> used]
                       /\ authorized' = authorized + 1
                       /\ atom_call' = Requested([written EXCEPT !.authorize_calls = 1],
                                                 authorized + 1, headers, sent, status)
          ELSE /\ atom_call' = Requested(written, lazy_session.id, headers, sent, status)
               /\ UNCHANGED <<lazy_session, authorizer, authorized, authVars>>
    /\ UNCHANGED <<engineVars, hours, minutes, cache, now, ticks, planVars, keyVars,
                   cacheVars>>

NextAtom ==
    \/ \E a \in AtomAuthorizers : SetAuthorizer(a)
    \/ \E key \in {"", "123456"} : SetApiKey(key)
    \/ \E path \in AtomPaths, params \in AtomParams, sf_culture \in AtomCultures,
          entered \in {"alice:right"}, answer \in AuthAnswers, status \in {200, 500} :
           Get(path, params, sf_culture, entered, answer, status)

SpecAtom == InitAtom /\ [][NextAtom]_vars

(***************************************************************************)
(* Properties.                                                             *)
(***************************************************************************)
CeilDiv(a, b) == (a + b - 1) \div b

\* pages 2, 3, ..., ceil(T/10), in increasing order
AdditionalPages(T) == [i \in 1..(IF T > RESULT_LIMIT THEN CeilDiv(T, RESULT_LIMIT) - 1 ELSE 0)
                          |-> i + 1]

\* the additional pages the planner under test produced
PlannedAdditional == IF planPc = "base" THEN Tail(planUrls) ELSE planUrls

\* C1: for every total T >= 0 the additional pages planned after the first page
\* are exactly 2, 3, ..., ceil(T/10) in increasing order: page 1 is not among
\* them, no page starts at or beyond T, the list is empty for T <= 10 and is
\* [2,3] for T = 25 (in models/base.py the list is what follows the first URL).
C1_PlanIsExact ==
    planPc \in {"endpoints", "base"} =>
        /\ PlannedAdditional = AdditionalPages(planT)
        /\ Len(PlannedAdditional) =
               (IF CeilDiv(planT, RESULT_LIMIT) > 1 THEN CeilDiv(planT, RESULT_LIMIT) - 1 ELSE 0)
        /\ \A i \in DOMAIN PlannedAdditional :
               /\ PlannedAdditional[i] # 1
               /\ (PlannedAdditional[i] - 1) * RESULT_LIMIT < planT
               /\ \A j \in DOMAIN PlannedAdditional :
                      i < j => PlannedAdditional[i] < PlannedAdditional[j]
        /\ (planT <= RESULT_LIMIT => PlannedAdditional = <<>>)
        /\ (planT = 25 => PlannedAdditional = <<2, 3>>)
        /\ (planPc = "base" => Head(planUrls) = 1)

C1_Witness == planPc = "endpoints" /\ planT = 25 /\ planUrls = <<2, 3>>

\* the pages of a list of T items: 1 .. max(1, ceil(T/10))
PagesOf(T) == 1..(IF CeilDiv(T, RESULT_LIMIT) > 1 THEN CeilDiv(T, RESULT_LIMIT) ELSE 1)

\* C2: in every successful scrape the pages parsed into the aggregate are
\* exactly pages 1 .. max(1, ceil(T/10)), each parsed exactly once, whatever
\* the total and whatever the order in which the fetches completed.
C2_EveryPageParsedOnce ==
    (last.kind = "ok" /\ last.source = "scrape") =>
        /\ Len(last.parsed) = Cardinality(PagesOf(last.total))
        /\ {last.parsed[i] : i \in DOMAIN last.parsed} = PagesOf(last.total)

C2_Witness ==
    /\ last.kind = "ok"
    /\ last.source = "scrape"
    /\ last.total = 21
    /\ last.parsed = <<3, 1, 2>>

\* the step in which the caller makes a call
CallStep == budget' = budget - 1

\* the record of the call made in a CallStep, finished or not
Called == IF pc' = "idle" THEN last' ELSE cur'

\* C3: when a virtual-scrape call returned an aggregate and the next call asks
\* for the same identifier with TTL > 0 while the cache entry has not expired,
\* the next call returns the identical aggregate and fetches no page.
C3_SecondCallFromCache ==
    [][(/\ CallStep
        /\ variant \in Cached
        /\ last.kind = "ok"
        /\ Called.id = last.id
        /\ hours + minutes > 0
        /\ cache[last.id].exists
        /\ ~(cache[last.id].expires < now))
       => (/\ pc' = "idle"
           /\ last'.kind = "ok"
           /\ last'.value = last.value
           /\ last'.requested = <<>>)]_vars

SameMapping(d, e) == {d[i] : i \in DOMAIN d} = {e[i] : i \in DOMAIN e}

SameQuery(q, r) == \A part \in 1..4 : SameMapping(q[part], r[part])

\* C4: two browse queries with the same sq/sf/so/filter parameters and values,
\* whatever the order in which the parameters were inserted, get the same
\* cache key.
C4_KeyIgnoresInsertionOrder ==
    (keyPc = "done" /\ SameQuery(query1, query2)) => key1 = key2

\* C5: during the fan-out no more than 5 page fetches are in flight at once.
C5_AtMostFiveInFlight == Cardinality(InFlight) <= 5

C5_Witness ==
    /\ Cardinality(InFlight) = 5
    /\ \E i \in Pending : futures[i].kind = "fetch"

\* C6: once a page fetch of a call has failed, nothing is stored in the cache
\* and the call ends in a failure that returns no aggregate.
C6_FailedFetchFailsCall ==
    [][(pc # "idle" /\ (cur'.failed \/ last'.failed))
       => (/\ cache' = cache
           /\ (pc' = "idle" => /\ last'.kind = "error"
                               /\ last'.value = <<>>
                               /\ last'.cacheWrites = 0))]_vars

C6_Witness ==
    /\ pc = "idle"
    /\ last.failed
    /\ last.kind = "error"
    /\ last.total > RESULT_LIMIT
    /\ Len(last.parsed) > 0

\* C7: a page with status 200 whose body holds the session-exhaustion marker
\* makes the whole scrape fail, whichever page carries it, and its body is
\* never handed to the record parser.
C7_ExhaustionFailsScrape ==
    /\ ~cur.markerParsed
    /\ ~last.markerParsed
    /\ (last.marker => last.kind = "error")

\* C8: a virtual-scrape call made with a zero TTL is refused before any page
\* fetch and before any cache access, whether or not the id is registered.
C8_ZeroTtlRefused ==
    (variant \in Cached /\ hours + minutes = 0) =>
        /\ pc = "idle"
        /\ last.kind \in {"none", "error"}
        /\ (last.kind = "error" => last.err = "ValueError")
        /\ last.requested = <<>>
        /\ last.cacheReads = 0
        /\ last.cacheWrites = 0
        /\ \A id \in Ids : cache[id] \in {NoFile, EarlierFile}

C8_Witness ==
    /\ variant \in Cached
    /\ hours + minutes = 0
    /\ last.kind = "error"
    /\ last.id = 42
    /\ budget = 0

\* C9: a virtual-scrape call for an identifier that is not registered fails
\* without any page fetch, even when the cache holds an entry under it.
C9_UnregisteredFails ==
    /\ (pc # "idle" /\ variant \in Cached) => cur.id \in virtual_taxonomies
    /\ (variant \in Cached /\ last.kind # "none" /\ last.id \notin virtual_taxonomies) =>
           /\ last.kind = "error"
           /\ last.requested = <<>>

C9_Witness ==
    /\ variant \in Cached
    /\ hours = 1
    /\ last.id = 34
    /\ last.kind = "error"
    /\ cache[34].exists
    /\ ~(cache[34].expires < now)

\* C10: when the first page reports a total of 0 the plan of further pages is
\* empty and the scrape returns an empty aggregate after exactly one fetch.
C10_EmptyListOneFetch ==
    (last.kind = "ok" /\ last.source = "scrape" /\ last.total = 0) =>
        /\ (IF variant = "base" THEN Tail(last.plan) ELSE last.plan) = <<>>
        /\ last.value = <<>>
        /\ Len(last.requested) = 1

\* C11: no fetch of page 2 or later is issued before the first-page fetch has
\* completed and its total has been parsed (the fan-out runs only with a parsed
\* total, and while the first page is awaited only page 1 has been requested);
\* a call whose first fetch or total parse failed never issued a fan-out fetch.
C11_FanoutAfterFirstPage ==
    /\ (pc \in {"fanout", "shutdown"} => cur.total >= 0)
    /\ (pc = "first_page" => cur.requested = <<1>> /\ futures = <<>>)
    /\ \A i \in DOMAIN cur.requested :
           (i > 1 \/ cur.requested[i] >= FIRST_FANOUT_PAGE) =>
               /\ i > 1
               /\ cur.total >= 0
               /\ pc \in {"fanout", "shutdown"}
    /\ (last.kind # "none" /\ last.total < 0 => Len(last.requested) <= 1)

C11_Witness ==
    /\ pc = "fanout"
    /\ cur.total = 21
    /\ cur.requested = <<1, 2, 3>>

\* the error payloads of the API
ErrorPayloads == {MessageBody(m) : m \in ApiMessages}

\* C12: after a successful SingleParameterApiEndpoint.get(id) with caching
\* enabled the response is in the cache, and the next get(id) made before the
\* expiry returns an equal value from the cache without a network request.
C12_SecondGetFromCache ==
    [][(/\ CallStep
        /\ variant = "single"
        /\ api_key # ""
        /\ hours + minutes > 0
        /\ last.kind = "ok"
        /\ last.source = "api"
        /\ Str(Called.id) = Str(last.id)
        /\ ~(Strftime(last.start + Timedelta(hours, minutes)) < now))
       => (/\ cache[ApiCacheId(variant, last.id)].exists
           /\ cache[ApiCacheId(variant, last.id)].object = last.value
           /\ pc' = "idle"
           /\ last'.kind = "ok"
           /\ last'.source = "cache"
           /\ last'.value = last.value
           /\ last'.requested = <<>>)]_vars

\* C13: whenever the JSON response of an API get carries a 'message' field the
\* call raises ConnectionError instead of returning the payload.
C13_MessageRaisesConnectionError ==
    (variant \in ApiVariants /\ last.body \in ErrorPayloads) =>
        /\ last.kind = "error"
        /\ last.err = "ConnectionError"

\* C14: no get operation writes an error payload to the cache: no cache file
\* ever holds one, a call answered with one stores nothing, and no call is
\* served one from the cache.
C14_ErrorPayloadNeverCached ==
    variant \in ApiVariants =>
        /\ \A name \in DOMAIN cache : cache[name].object \notin ErrorPayloads
        /\ (last.body \in ErrorPayloads => last.cacheWrites = 0)
        /\ (last.source = "cache" => last.value \notin ErrorPayloads)

C14_Witness ==
    /\ variant = "single"
    /\ hours = 1
    /\ last.body = MessageBody("Not authorized")
    /\ last.cacheReads = 1
    /\ last.requested = <<1>>
    /\ budget = 0

\* C15: cache entries of different object ids are independent: a get whose
\* id has a stored, unexpired entry is a cache hit that returns that entry,
\* and a store for one id changes the entry of no other id.
C15_EntriesIndependent ==
    [][/\ (/\ CallStep
           /\ variant = "single"
           /\ api_key # ""
           /\ hours + minutes > 0
           /\ cache[ApiCacheId(variant, Called.id)].exists
           /\ ~(cache[ApiCacheId(variant, Called.id)].expires < now))
          => (/\ pc' = "idle"
              /\ last'.kind = "ok"
              /\ last'.source = "cache"
              /\ last'.value = cache[ApiCacheId(variant, Called.id)].object)
       /\ (variant = "single" /\ pc = "api_request") =>
              \A name \in DOMAIN cache :
                  name # ApiCacheId(variant, cur.id) => cache'[name] = cache[name]]_vars

\* C16: with a TTL of zero a real-API get neither reads nor writes the cache,
\* and every call that is not refused for its arguments issues a request.
C16_ZeroTtlBypassesCache ==
    (variant \in ApiVariants /\ hours + minutes = 0 /\ api_key # "") =>
        /\ cur.cacheReads = 0
        /\ last.cacheReads = 0
        /\ last.cacheWrites = 0
        /\ \A name \in DOMAIN cache : cache[name] \in {NoFile, EarlierFile}
        /\ (last.kind # "none" /\ last.err # "ValueError" => last.requested = <<1>>)

\* C17: a fetching operation ends in a result or in a raised failure, never
\* both, and an error is never turned into a successful result: a call
\* answered with an error payload, or one of whose page fetches or total parse
\* failed, ends in a failure and returns nothing.
C17_ErrorNeverEmptySuccess ==
    /\ (last.kind = "error" => last.value = <<>> /\ last.err # "")
    /\ (last.kind = "ok" => last.err = "")
    /\ (last.kind # "none" /\ (last.body \in ErrorPayloads \/ last.failed \/ last.noTotal)) =>
           last.kind = "error"

\* C18: the failure raised for a session-exhaustion page differs in kind from
\* the failure raised for a first page without a usable result-count marker
\* and from the failure raised for a non-2xx status: a call that ended on a
\* session-exhaustion first page carries neither of the other two kinds.
C18_ExhaustionKindDistinct ==
    (last.kind = "error" /\ last.marker /\ last.requested = <<1>>) =>
        /\ last.err # FirstPageError(variant, UncountedPage(1, remote))
        /\ last.err # FirstPageError(variant, ErrorStatusPage(1))

\* C19: when the first page comes back without a result-count marker the
\* pattern matches, the scrape fails after exactly that one fetch: no further
\* page is requested, the fetch is not repeated and nothing is stored.
C19_NoTotalFailsAfterOneFetch ==
    [][/\ ~cur'.noTotal
       /\ last'.noTotal =>
              /\ last'.kind = "error"
              /\ last'.requested = <<1>>
              /\ last'.cacheWrites = 0
              /\ cache' = cache]_vars

C19_Witness ==
    /\ last.noTotal
    /\ ~last.marker
    /\ last.kind = "error"
    /\ last.err = "ConnectionError"

\* the parser's output on each text, in the order the fetches were submitted
RECURSIVE ParsedInOrder(_, _)
ParsedInOrder(id, texts) ==
    IF texts = <<>> THEN <<>>
    ELSE Parse(id, Head(texts)) \o ParsedInOrder(id, Tail(texts))

Count(seq, x) == Cardinality({i \in DOMAIN seq : seq[i] = x})

SameMultiset(a, b) ==
    \A x \in {a[i] : i \in DOMAIN a} \cup {b[i] : i \in DOMAIN b} : Count(a, x) = Count(b, x)

\* C20: whatever the order in which the page fetches completed, the records a
\* scrape returns are, as a multiset, the union of the parser's output on each
\* page's text; only their order depends on the completion order.
C20_SameMultisetAnyOrder ==
    (last.kind = "ok" /\ last.source = "scrape") =>
        SameMultiset(last.value, ParsedInOrder(last.id, last.texts))

C20_Witness ==
    /\ variant = "endpoints"
    /\ last.kind = "ok"
    /\ last.source = "scrape"
    /\ last.total = 21
    /\ last.parsed = <<3, 2, 1>>
    /\ Len(last.value) = 21

NoDuplicates(seq) == \A i, j \in DOMAIN seq : i # j => seq[i] # seq[j]

\* C24: within one scrape call every page is requested from the server at
\* most once: the first page is not fetched again in the fan-out and a failed
\* fetch is not retried.
C24_EachPageRequestedOnce ==
    /\ NoDuplicates(cur.requested)
    /\ NoDuplicates(last.requested)

\* C25: during a virtual-scrape call the cache is read only in the step that
\* starts the call, before the first page fetch, and written only in the step
\* that returns, when no fetch is pending or in flight and every page has been
\* parsed; no step taken while the call is in progress reads the cache.
C25_CacheOutsideConcurrentPhase ==
    [][(variant \in Cached =>
          /\ (pc # "idle" => Called.cacheReads = cur.cacheReads)
          /\ (CallStep /\ Called.cacheReads > 0 => pc = "idle" /\ futures = <<>>)
          /\ (cache' # cache \/ (pc # "idle" /\ Called.cacheWrites # cur.cacheWrites)) =>
                 /\ pc = "fanout"
                 /\ pc' = "idle"
                 /\ Outstanding = {}
                 /\ last'.cacheWrites = 1
                 /\ {last'.parsed[i] : i \in DOMAIN last'.parsed} = PagesOf(last'.total))]_vars

C25_Witness ==
    /\ variant \in Cached
    /\ last.kind = "ok"
    /\ last.total = 21
    /\ last.cacheReads = 1
    /\ last.cacheWrites = 1
    /\ cache[last.id].exists

\* C26: the result aggregate changes only in a step of the calling thread:
\* either the call ends, or exactly one completed future is consumed and its
\* records are appended while no worker changes state; a step of a worker
\* thread leaves the aggregate as it is.
C26_OnlyCoordinatorAppends ==
    [][(all_items' # all_items =>
          /\ pc \in {"fanout", "shutdown"}
          /\ \/ pc' = "idle"
             \/ /\ pc = "fanout"
                /\ DOMAIN futures' = DOMAIN futures
                /\ \A i \in DOMAIN futures :
                       /\ futures'[i].state = futures[i].state
                       /\ futures'[i].result = futures[i].result
                /\ \E i \in Finished :
                       /\ ~futures[i].yielded
                       /\ futures'[i].yielded
                       /\ \A j \in DOMAIN futures :
                              j # i => futures'[j].yielded = futures[j].yielded
                       /\ all_items' = all_items \o Parse(cur.id, futures[i].result.text))]_vars

C26_Witness ==
    /\ pc = "fanout"
    /\ all_items # <<>>
    /\ Running # {}
    /\ Pending # {}

\* C27: a virtual-scrape call is refused for its TTL only when the total TTL
\* is zero: with hours + minutes > 0 a call that ends in ValueError was refused
\* by the registry check.
C27_PositiveTtlAccepted ==
    (variant \in Cached /\ hours + minutes > 0 /\ last.kind = "error"
         /\ last.err = "ValueError") =>
        last.id \notin virtual_taxonomies

\* the filter names written in the VALID_FILTERS tuple
ListedFilters ==
    {"limit", "skip", "sort", "lastUpdated", "topLod", "onlyMedia", "copyrightStatus",
     "materialType", "languages", "levels", "mediatypes", "repos", "places", "subjects",
     "genres", "creators", "names", "collection", "startDate", "endDate", "rangeType"}

\* C22: a browse get whose sq, sf and so pass validation is refused with
\* ValueError exactly when one of its filters has a name that is not listed in
\* VALID_FILTERS or an empty value: limit, skip, sort, lastUpdated, topLod,
\* onlyMedia and copyrightStatus are accepted, and so is the example query.
C22_ListedFiltersAccepted ==
    (/\ variant = "browse"
     /\ api_key # ""
     /\ last.kind # "none"
     /\ ValidQueryParameters(last.id[1], "sq")
     /\ ValidQueryParameters(last.id[2], "sf")
     /\ ValidSo(last.id[3])) =>
        (last.err = "ValueError" <=>
             \E i \in DOMAIN last.id[4] :
                 last.id[4][i][1] \notin ListedFilters \/ last.id[4][i][2] = "")

\* the value is made of records a scrape parsed out of pages
ScrapedRecords(value) == \A i \in DOMAIN value : "page" \in DOMAIN value[i]

\* the value is made of the term names the real API answered with
ApiTermNames(value) == \A i \in DOMAIN value : "name" \in DOMAIN value[i]

\* C28: a value a virtual-taxonomy call returns from the cache was stored by
\* a virtual scrape, and a value the real-API taxonomy endpoint returns from
\* the cache was stored by the real-API endpoint: neither is served an entry
\* the other wrote for the same identifier and host.
C28_ScrapeAndApiEntriesApart ==
    (last.kind = "ok" /\ last.source = "cache") =>
        /\ (last.endpoint \in Cached => ScrapedRecords(last.value))
        /\ (last.endpoint = "terms" => ApiTermNames(last.value))

\* the sf_culture parameters of the requests whose answers make up the value
FetchedWith(json) ==
    {IF json[i].type = "dict" THEN json[i].name[1][2] ELSE json[i].value[2] :
         i \in {j \in DOMAIN json :
                   IF json[j].type = "dict" THEN TRUE ELSE json[j].key = "results"}}

\* C29: a value a real-API get returns from the cache was fetched with the
\* sf_culture of the endpoint object that returns it: endpoint objects that
\* differ only in sf_culture are not served each other's cached responses.
C29_HitHasSameCulture ==
    (last.kind = "ok" /\ last.source = "cache") =>
        FetchedWith(last.value) = {CultureParams(last.sf_culture)}

\* C21: a retrieve that reads the entry stored at time t with TTL d reports a
\* hit exactly when it is made at a time up to t + d, and the expiry written
\* with an entry is t + d as the TTL was when it was stored, whatever the
\* setters were given afterwards.
C21_HitUntilExpiry ==
    /\ (retrieve_call.pc = "done" /\ retrieve_call.entry.written) =>
           (retrieve_call.found <=>
                retrieve_call.at <= retrieve_call.entry.at + retrieve_call.entry.ttl)
    /\ \A name \in DOMAIN stored :
           (stored[name].written /\ cache[name].exists /\ name \notin partial) =>
               cache[name].expires = Strftime(stored[name].at + stored[name].ttl)

\* C30: a retrieve that runs while a store writes the same key ends in a miss
\* or in a complete stored value, and once both have finished the entry the
\* store wrote is in the cache.
C30_ConcurrentRetrieveKeepsEntry ==
    /\ (retrieve_call.pc = "done" /\ retrieve_call.found) =>
           retrieve_call.value \in {JsonRoundTrip(obj) : obj \in CacheObjects}
                                       \cup {OldFile.object}
    /\ (store_call.pc = "done" /\ ~Busy(retrieve_call)) =>
           /\ cache[store_call.name].exists
           /\ store_call.name \notin partial
           /\ cache[store_call.name].object = JsonRoundTrip(store_call.obj)

\* C23: an authorizer constructed with cache_credentials=True that authorizes
\* against a login URL for which a caching authorizer got credentials before
\* does not prompt the user, whatever authorizers were used in between.
C23_PromptedOncePerUrl ==
    (auth_call.cache_credentials /\ auth_call.earlier) => ~auth_call.prompted

(***************************************************************************)
(* C35: when a scrape call returns or raises, no page fetch it dispatched  *)
(* is still running or still waiting to start: the step that ends the call *)
(* is taken with every submitted work item finished, also when the call    *)
(* ends with the failure of one page.                                      *)
(***************************************************************************)
C35_NoFetchLeftBehind ==
    [][(pc # "idle" /\ pc' = "idle") =>
           /\ \A i \in DOMAIN futures : futures[i].state = "finished"
           /\ last'.kind \in {"ok", "error"}
           /\ Len(last'.requested) = 1 + Cardinality({i \in DOMAIN futures :
                                                         futures[i].kind = "fetch"})]_vars

\* a page has failed and the executor has waited for the fetches that were
\* still to run: they have finished, unconsumed, and the failure is about to
\* reach the caller
C35_Witness ==
    /\ pc = "shutdown"
    /\ raised # ""
    /\ Pending = {}
    /\ Running = {}
    /\ \E i \in DOMAIN futures : futures[i].kind = "fetch" /\ ~futures[i].yielded

(***************************************************************************)
(* C37: after any sequence of Cache constructions, set_expire_hours and    *)
(* set_expire_minutes calls the hours and the minutes of the cache are     *)
(* both >= 0; a constructor or setter call with a negative argument raises *)
(* ValueError and leaves the hours and minutes configured before as they   *)
(* were, and a call without one raises nothing.                            *)
(***************************************************************************)
C37_TtlNeverNegative ==
    /\ [](hours >= 0 /\ minutes >= 0)
    /\ [][(budget' # budget /\ set_call'.op # "") =>
              IF \E i \in DOMAIN set_call'.arg : set_call'.arg[i] < 0
              THEN set_call'.err = "ValueError" /\ hours' = hours /\ minutes' = minutes
              ELSE set_call'.err = ""]_vars

\* Cache(1, -1) was refused where a Cache of 0 hours and 30 minutes was in
\* use: the hours given are not taken over either
C37_Witness ==
    /\ set_call = [op |-> "Cache", arg |-> <<1, -1>>, err |-> "ValueError"]
    /\ hours = 0
    /\ minutes = 30

(***************************************************************************)
(* C31: BrowseInformationObjectEndpoint.get raises ValueError, without     *)
(* reading the cache or issuing any request, when the API key is missing,  *)
(* a query key is not its two-letter prefix followed by digits, two keys   *)
(* of one kind carry the same numeric index, a query or filter value is    *)
(* empty, or an operator value is not one of and, or, not.                 *)
(***************************************************************************)
\* the keys in use here that are the two-letter code followed by digits
DigitKeys(two_letter_code) ==
    {key \in {"sq0", "sq00", "sq1", "sf0", "so1"} : KeyShape(key).code = two_letter_code}

HasMalformedKey(queries, two_letter_code) ==
    \E i \in DOMAIN queries : queries[i][1] \notin DigitKeys(two_letter_code)

HasRepeatedIndex(queries) ==
    \E i, j \in DOMAIN queries :
        i # j /\ KeyShape(queries[i][1]).index = KeyShape(queries[j][1]).index

HasEmptyValue(items) == \E i \in DOMAIN items : items[i][2] = ""

Refused(q) ==
    \/ api_key = ""
    \/ HasMalformedKey(q[1], "sq") \/ HasMalformedKey(q[2], "sf") \/ HasMalformedKey(q[3], "so")
    \/ \E k \in 1..3 : HasRepeatedIndex(q[k])
    \/ \E k \in 1..4 : HasEmptyValue(q[k])
    \/ \E i \in DOMAIN q[3] : q[3][i][2] \notin {"and", "or", "not"}

C31_InvalidBrowseRefusedFirst ==
    variant = "browse" =>
        /\ (cur.kind = "running" => ~Refused(cur.id))
        /\ (last.kind # "none" /\ Refused(last.id)) =>
               /\ last.kind = "error"
               /\ last.err = "ValueError"
               /\ last.cacheReads = 0
               /\ last.requested = <<>>

(***************************************************************************)
(* C32: for one Atom object authorize() succeeds at most once over any     *)
(* sequence of get calls: once a session is there it stays, every later    *)
(* get sends its request on it, and a set_authorizer after the first       *)
(* successful get does not change it.                                      *)
(***************************************************************************)
C32_AuthorizedAtMostOnce ==
    /\ [](authorized <= 1)
    /\ [](atom_call.session # 0 => atom_call.session = 1 /\ lazy_session.id = 1)
    /\ [][lazy_session.id # 0 =>
              /\ lazy_session' = lazy_session
              /\ authorized' = authorized
              /\ atom_call' # atom_call => atom_call'.authorize_calls = 0]_vars

\* a later get has sent its request on the session of the first one, after
\* set_authorizer gave the object another authorizer
C32_Witness ==
    /\ atom_call.n >= 2
    /\ atom_call.session = 1
    /\ atom_call.authorize_calls = 0
    /\ authorizer # NoAuthorizer
    /\ authorizer # lazy_session.by

(***************************************************************************)
(* C33: Atom.get attaches the REST-API-Key header only to requests whose   *)
(* path starts with api/ (leading slashes aside): a request to any other   *)
(* path never carries the key, and a get of an api/ path with no key set   *)
(* is refused with ConnectionError before any session is created or any    *)
(* request made.                                                           *)
(***************************************************************************)
CarriesKey(headers) == \E i \in DOMAIN headers : headers[i][1] = "REST-API-Key"

ToApi(get) ==
    LET p == Lstrip(get.path) IN Len(p) >= 2 /\ p[1] = "api" /\ p[2] = "/"

NothingSent(get) ==
    /\ get.authorize_calls = 0
    /\ get.session = 0
    /\ get.request_url = <<>>
    /\ get.headers = <<>>

C33_KeyOnlyOnApiPaths ==
    atom_call.n > 0 =>
        /\ ~ToApi(atom_call) => ~CarriesKey(atom_call.headers)
        /\ (ToApi(atom_call) /\ atom_call.session # 0) =>
               atom_call.headers = <<<<"REST-API-Key", atom_call.api_key>>>>
        /\ (ToApi(atom_call) /\ atom_call.api_key = "") =>
               atom_call.err = "ConnectionError" /\ NothingSent(atom_call)

\* the same, the culture being tested before the key: a get of an api/ path
\* with no key set is refused with ValueError when its culture is not an ISO
\* 639-1 code, and with ConnectionError otherwise
C33_KeyOnlyOnApiPathsCultureFirst ==
    atom_call.n > 0 =>
        /\ ~ToApi(atom_call) => ~CarriesKey(atom_call.headers)
        /\ (ToApi(atom_call) /\ atom_call.session # 0) =>
               atom_call.headers = <<<<"REST-API-Key", atom_call.api_key>>>>
        /\ (ToApi(atom_call) /\ atom_call.api_key = "") =>
               /\ atom_call.err = IF atom_call.sf_culture \in ISO_639_1_LANGUAGES
                                  THEN "ConnectionError" ELSE "ValueError"
               /\ NothingSent(atom_call)

\* a get of an api/ path was refused for want of a key: ConnectionError, and
\* the object still has no session
C33_Witness ==
    /\ atom_call.n > 0
    /\ atom_call.api_key = ""
    /\ ToApi(atom_call)
    /\ atom_call.err = "ConnectionError"
    /\ lazy_session = NoSession

(***************************************************************************)
(* C34: Atom.get leaves the params mapping of the caller unchanged: after  *)
(* the call it holds the keys and values it held before, for every params  *)
(* value and culture.                                                      *)
(***************************************************************************)
C34_ParamsUnchanged ==
    atom_call.n > 0 => atom_call.params = atom_call.given

(***************************************************************************)
(* C36: provided every page fetch eventually returns or raises, every      *)
(* scrape call eventually terminates with a result or with a failure, for  *)
(* every reported total T >= 0: the planning loop has ended after          *)
(* max(0, ceil(T/10) - 1) iterations, having added one page each, and the  *)
(* fan-out consumes each submitted work item once.                         *)
(***************************************************************************)
PlanIterations(T) ==
    IF CeilDiv(T, RESULT_LIMIT) - 1 > 0 THEN CeilDiv(T, RESULT_LIMIT) - 1 ELSE 0

\* the URLs the plan holds before its loop starts
PlannedBeforeLoop(v) == IF v = "base" THEN 1 ELSE 0

Consumed == {i \in DOMAIN futures : futures[i].yielded}

C36_EveryCallTerminates ==
    /\ (pc # "idle") ~> (pc = "idle" /\ last.kind \in {"ok", "error"})
    /\ [](pc \in {"fanout", "shutdown"} =>
             /\ cur.total >= 0
             /\ Len(cur.plan) = PlannedBeforeLoop(variant) + PlanIterations(cur.total)
             /\ Cardinality({i \in DOMAIN futures : futures[i].kind = "fetch"}) = Len(cur.plan))
    /\ [][/\ Consumed \subseteq Consumed' \/ pc' = "idle"
          /\ Cardinality(Consumed') <= Cardinality(Consumed) + 1
          /\ (pc = "fanout" /\ pc' = "idle" /\ last'.kind = "ok") =>
                 Cardinality(Consumed) + 1 = Len(futures)]_vars

\* a call against a list of more than two pages has come back with its
\* records, every page parsed
C36_Witness ==
    /\ last.kind = "ok"
    /\ last.source = "scrape"
    /\ last.total > 2 * RESULT_LIMIT
    /\ Len(last.plan) = PlannedBeforeLoop(variant) + 2
    /\ Len(last.parsed) = 3

====
